---- MODULE Spec2Model ----
(***************************************************************************)
(* VMapFS: the virtual-namespace engine.                                   *)
(*                                                                         *)
(* A path is the sequence of its components: the virtual path "/x/g" is    *)
(* <<"x", "g">>, the virtual root "/" is <<>>, the source path "d/g" is    *)
(* <<"d", "g">>.  strings.HasPrefix(v, D + "/") on cleaned paths is the    *)
(* proper-prefix relation on component sequences, except for D = "/",      *)
(* whose prefix string "//" no cleaned path starts with.                   *)
(***************************************************************************)
EXTENDS Integers, Sequences, FiniteSets, TLC

----------------------------------------------------------------------------
(* Bounds of the model *)

\* number of operations of one run
MaxOps == 3

\* number of calls the request goroutines serve in one concurrent run
MaxCalls == 3

\* the last second of the clock in the runs of the state manager
MaxClock == 7

----------------------------------------------------------------------------
(* Universe *)

\* names a caller passes for a new entry (Mkdir name, rename NewName)
NewNames == {"x", "y"}

\* the name under which the root directory shows the unsorted view
ReservedName == "_UNSORTED"

\* the new names a rename of a virtual entry can carry: rename(2) onto the
\* existing directory /_UNSORTED reaches Dir.Rename with that name
RenameNames == NewNames \cup {ReservedName}
\* names a caller passes for an existing entry (Remove name, rename OldName)
OldNames == {"x", "y", "g", ".."}

VRoot == <<>>

\* the source tree: regular files and directories below the source root
SrcFiles == {<<"f">>, <<"d", "g">>, <<"d", "e", "h">>}
SrcDirs  == {<<>>, <<"d">>, <<"d", "e">>}

AttrNames  == {"user.k"}
AttrValues == {"v1", "v2"}

Threads == {1, 2}

----------------------------------------------------------------------------
(* Path types *)

IsPrefix(p, q) == Len(p) <= Len(q) /\ SubSeq(q, 1, Len(p)) = p

\* filepath.Clean on the components of an absolute path
RECURSIVE CleanAbs(_, _)
CleanAbs(acc, rest) ==
    IF rest = <<>> THEN acc
    ELSE LET c == Head(rest) IN
         IF c = "." \/ c = "" THEN CleanAbs(acc, Tail(rest))
         ELSE IF c = ".."
              THEN CleanAbs(IF acc = <<>> THEN <<>> ELSE SubSeq(acc, 1, Len(acc) - 1),
                            Tail(rest))
              ELSE CleanAbs(Append(acc, c), Tail(rest))

\* NewVirtualPath(d.path.String() + "/" + name)
NewVirtualPath(comps) == CleanAbs(<<>>, comps)

ChildPath(d, name) == NewVirtualPath(Append(d, name))

\* filepath.Clean on a relative path: a leading ".." is kept
RECURSIVE CleanRel(_, _)
CleanRel(acc, rest) ==
    IF rest = <<>> THEN acc
    ELSE LET c == Head(rest) IN
         IF c = "." \/ c = "" THEN CleanRel(acc, Tail(rest))
         ELSE IF c = ".." /\ acc # <<>> /\ acc[Len(acc)] # ".."
              THEN CleanRel(SubSeq(acc, 1, Len(acc) - 1), Tail(rest))
              ELSE CleanRel(Append(acc, c), Tail(rest))

NewSourcePath(comps) == CleanRel(<<>>, comps)

\* strings.HasPrefix(v, D.String() + "/") for a cleaned, non-empty path v
HasDirPrefix(v, D) == D # VRoot /\ Len(v) > Len(D) /\ IsPrefix(D, v)

\* newPrefix + strings.TrimPrefix(v, oldPrefix)
RewritePrefix(v, oldP, newP) == newP \o SubSeq(v, Len(oldP) + 1, Len(v))

----------------------------------------------------------------------------
(* The source tree on disk: os.Stat *)

StatExists(files, sp) == sp \in files \/ sp \in SrcDirs
StatIsDir(files, sp)  == sp \in SrcDirs

----------------------------------------------------------------------------
(* state.FileMapping and PathMapper.  A mapping table m is a function from  *)
(* the source paths that have a row to [placed, vp, xattrs]; placed is      *)
(* FALSE exactly when the row's VirtualPath is the empty string.            *)

NoXattrs == [n \in {} |-> "v1"]

FileMapping(placed, vp, xattrs) == [placed |-> placed, vp |-> vp, xattrs |-> xattrs]

\* IsPathMapped that takes every row for a placement
IsPathMappedAnyRow(m, sp) == sp \in DOMAIN m

IsPathMapped(m, sp) == sp \in DOMAIN m /\ m[sp].placed

\* the source paths GetSourcePath(vp) can return: the range loop returns the
\* first matching row in map iteration order, which Go leaves unspecified
GetSourcePath(m, vp) == {sp \in DOMAIN m : m[sp].placed /\ m[sp].vp = vp}

PutRow(m, sp, row) == [k \in DOMAIN m \cup {sp} |-> IF k = sp THEN row ELSE m[k]]

\* AddMapping that leaves a source path where it is when it is already placed
AddMappingIfUnplaced(m, files, vp, sp) ==
    IF ~StatExists(files, sp) THEN m
    ELSE IF StatIsDir(files, sp) THEN m
    ELSE IF sp \in DOMAIN m /\ m[sp].placed THEN m
    ELSE PutRow(m, sp, FileMapping(TRUE, vp,
                   IF sp \in DOMAIN m THEN m[sp].xattrs ELSE NoXattrs))

AddMapping(m, files, vp, sp) ==
    IF ~StatExists(files, sp) THEN m
    ELSE IF StatIsDir(files, sp) THEN m
    ELSE PutRow(m, sp, FileMapping(TRUE, vp,
                   IF sp \in DOMAIN m THEN m[sp].xattrs ELSE NoXattrs))

\* RemoveMapping clears the row the range loop meets first; hit is that row
ClearRow(m, hit) == PutRow(m, hit, FileMapping(FALSE, <<>>, m[hit].xattrs))

RemoveMapping(m, vp) ==
    IF GetSourcePath(m, vp) = {} THEN {m}
    ELSE {ClearRow(m, hit) : hit \in GetSourcePath(m, vp)}

GetXattrs(m, sp) == IF sp \in DOMAIN m THEN m[sp].xattrs ELSE NoXattrs

\* SetXattr that stores nothing for a source path without a row
SetXattrExistingOnly(m, sp, name, value) ==
    IF sp \notin DOMAIN m THEN m
    ELSE PutRow(m, sp, FileMapping(m[sp].placed, m[sp].vp,
                   [n \in DOMAIN m[sp].xattrs \cup {name} |->
                       IF n = name THEN value ELSE m[sp].xattrs[n]]))

SetXattr(m, sp, name, value) ==
    LET old == IF sp \in DOMAIN m THEN m[sp] ELSE FileMapping(FALSE, <<>>, NoXattrs)
        xs  == [n \in DOMAIN old.xattrs \cup {name} |->
                   IF n = name THEN value ELSE old.xattrs[n]]
    IN PutRow(m, sp, FileMapping(old.placed, old.vp, xs))

RemoveXattr(m, sp, name) ==
    IF sp \in DOMAIN m
    THEN PutRow(m, sp, FileMapping(m[sp].placed, m[sp].vp,
                   [n \in DOMAIN m[sp].xattrs \ {name} |-> m[sp].xattrs[n]]))
    ELSE m

\* every walked entry of the source tree (files and directories, the root
\* excepted) whose row is absent or unplaced
UnmappedSourcePaths(m, files) ==
    {sp \in (files \cup SrcDirs) \ {<<>>} : ~IsPathMapped(m, sp)}

----------------------------------------------------------------------------
(* Unsorted view *)

\* os.ReadDir: the entries of a source directory
ReadDir(files, dir) ==
    {c \in (files \cup SrcDirs) \ {<<>>} : Len(c) = Len(dir) + 1 /\ IsPrefix(dir, c)}

\* an emptiness test that takes every subdirectory for empty
isDirectoryEmptyShallow(m, files, dir) ==
    \A c \in ReadDir(files, dir) : StatIsDir(files, c) \/ IsPathMapped(m, c)

\* isDirectoryEmpty: every file entry is placed and every directory entry is
\* itself empty in this sense
RECURSIVE isDirectoryEmpty(_, _, _)
isDirectoryEmpty(m, files, dir) ==
    \A c \in ReadDir(files, dir) :
        IF StatIsDir(files, c) THEN isDirectoryEmpty(m, files, c)
        ELSE IsPathMapped(m, c)

\* UnsortedDir.Lookup that does not hide a placed child
UnsortedLookupShowsPlaced(m, files, u, name) ==
    LET child == NewSourcePath(Append(u, name)) IN
    IF ~StatExists(files, child) THEN "ENOENT"
    ELSE IF StatIsDir(files, child)
         THEN IF isDirectoryEmpty(m, files, child) THEN "ENOENT" ELSE "dir"
         ELSE "file"

\* UnsortedDir.Lookup: "ENOENT", "dir" or "file"
UnsortedLookup(m, files, u, name) ==
    LET child == NewSourcePath(Append(u, name)) IN
    IF ~StatExists(files, child) THEN "ENOENT"
    ELSE IF IsPathMapped(m, child) THEN "ENOENT"
    ELSE IF StatIsDir(files, child)
         THEN IF isDirectoryEmpty(m, files, child) THEN "ENOENT" ELSE "dir"
         ELSE "file"

\* UnsortedDir.ReadDirAll: the names listed
UnsortedReadDirAll(m, files, u) ==
    {sp[Len(sp)] : sp \in
        {c \in (files \cup SrcDirs) \ {<<>>} :
            /\ Len(c) = Len(u) + 1 /\ IsPrefix(u, c)
            /\ ~IsPathMapped(m, c)
            /\ (StatIsDir(files, c) =>
                  \E f \in files : Len(f) > Len(c) /\ IsPrefix(c, f)
                                   /\ ~IsPathMapped(m, f))}}

\* the unsorted view shows source file sp: found by Lookup and listed
ShownUnsorted(m, files, sp) ==
    LET parent == SubSeq(sp, 1, Len(sp) - 1)
        base   == sp[Len(sp)]
    IN /\ UnsortedLookup(m, files, parent, base) # "ENOENT"
       /\ base \in UnsortedReadDirAll(m, files, parent)

----------------------------------------------------------------------------
(* State *)

VARIABLES
    directories,   \* state.Directories: the virtual directory set
    mappings,      \* pathMapper.mappings: source path -> FileMapping
    files,         \* the regular files of the source tree that exist on disk
    disk,          \* the content of the state file
    last,          \* the operation that returned last; its arguments if it succeeded
    nops,          \* the number of operations so far
    pc,            \* per request goroutine: the call it serves and its position
    mu,            \* fs.mu: its writer and its readers; sm.mu: its holder;
                   \* File.mu: the holder of each file node's own lock
    saves,         \* history of SaveState: "all-ok" while none has failed,
                   \* "failed" when the latest one failed, "recovered" when one
                   \* has succeeded after a failure
    backups,       \* the backup directory: the second each backup file is
                   \* named after, which is also when it was last written
    clock          \* time.Now(), in seconds

vars == <<directories, mappings, files, disk, last, nops, pc, mu, saves, backups, clock>>

FSState(dirs, m) == [dirs |-> dirs, maps |-> m]

Call(op, err, a, b, s) == [op |-> op, err |-> err, a |-> a, b |-> b, s |-> s]

\* an outcome of a handler body: its return value and the state it leaves
Out(err, dirs, m) == [err |-> err, dirs |-> dirs, maps |-> m]

----------------------------------------------------------------------------
(* Persisted-state manager *)

\* FSState.Version of the state this program writes
Version == 1

\* A file name is a byte string; "caf<E9>" and "user.<FF>" stand for names with
\* a byte that is not valid UTF-8 (Latin-1 e-acute, 0xFF).  encoding/json
\* writes a Go string, and a string map key, coerced to valid UTF-8: every
\* invalid byte becomes U+FFFD.  No two names used here coerce to the same
\* string, so the keys of a marshalled object stay distinct.
ToValidUTF8(name) ==
    CASE name = "caf<E9>"   -> "caf<FFFD>"
      [] name = "user.<FF>" -> "user.<FFFD>"
      [] OTHER              -> name

\* a path string, coerced: "/" is valid, so the components are coerced
CoercePath(p) == [i \in DOMAIN p |-> ToValidUTF8(p[i])]

\* encoding/json on []byte: base64 text, decoded back to the bytes
Base64Encode(v) == <<"base64", v>>
Base64Decode(e) == e[2]

\* FileMapping.VirtualPath as the string held in the table: "" when unplaced,
\* "/" and the components otherwise
VirtualPathString(row) == IF row.placed THEN <<"/">> \o row.vp ELSE <<>>

\* json.Marshal of map[string][]byte
MarshalXattrs(x) ==
    [k \in {ToValidUTF8(n) : n \in DOMAIN x} |->
        Base64Encode(x[CHOOSE n \in DOMAIN x : ToValidUTF8(n) = k])]

\* json.Marshal of a FileMapping: "xattrs" is left out when the map is empty
MarshalMapping(row) ==
    IF DOMAIN row.xattrs = {}
    THEN [virtual_path |-> CoercePath(VirtualPathString(row))]
    ELSE [virtual_path |-> CoercePath(VirtualPathString(row)),
          xattrs |-> MarshalXattrs(row.xattrs)]

\* json.MarshalIndent of the FSState: the document written to the state file
MarshalIndent(st) ==
    [mappings    |-> [k \in {CoercePath(sp) : sp \in DOMAIN st.maps} |->
                         MarshalMapping(st.maps[CHOOSE sp \in DOMAIN st.maps :
                                                    CoercePath(sp) = k])],
     directories |-> {CoercePath(d) : d \in st.dirs},
     version     |-> Version]

\* json.Unmarshal of a FileMapping
UnmarshalMapping(j) ==
    FileMapping(j.virtual_path # <<>>,
                IF j.virtual_path = <<>> THEN <<>> ELSE Tail(j.virtual_path),
                IF "xattrs" \in DOMAIN j
                THEN [n \in DOMAIN j.xattrs |-> Base64Decode(j.xattrs[n])]
                ELSE NoXattrs)

\* json.Unmarshal of the state file
Unmarshal(doc) ==
    FSState(doc.directories,
            [k \in DOMAIN doc.mappings |-> UnmarshalMapping(doc.mappings[k])])

\* Manager.LoadState on a state file that parses: missing maps are initialised
\* and the root directory is re-asserted
LoadState(d) == FSState(Unmarshal(d).dirs \cup {VRoot}, Unmarshal(d).maps)

\* Manager.backupCount
backupCount == 5

\* the state file when it does not exist, when it has length zero, and when
\* its bytes are not a JSON document of the state
Absent == [file |-> "absent"]
Empty == [file |-> "empty"]
Unparsable == [file |-> "unparsable"]

\* the state file holds a document that json.Unmarshal accepts
Parses(d) == "file" \notin DOMAIN d

\* what LoadState returns next to an error
NoState == [state |-> "nil"]

\* the state LoadState builds when there is no usable state file
DefaultState == FSState({VRoot}, <<>>)

\* sort.Slice by modification time, newest first: the entries before index n
\* (every order of ties is the same here, a name is its second)
Newest(b, n) == {x \in b : Cardinality({y \in b : y > x}) < n}

\* a result of createBackup or cleanupOldBackups: its error and the directory
BackupOut(err, b) == [err |-> err, backups |-> b]

\* a rotation that stops without an error when a deletion fails
cleanupOldBackupsQuiet(b, readDirOK) ==
    IF ~readDirOK THEN {BackupOut("EIO", b)}
    ELSE LET old == b \ Newest(b, backupCount) IN
         {BackupOut("OK", b \ Newest(old, k)) : k \in 0..Cardinality(old)}

\* cleanupOldBackups whose loop starts one entry late
cleanupOldBackupsOffByOne(b, readDirOK) ==
    IF ~readDirOK THEN {BackupOut("EIO", b)}
    ELSE LET old == b \ Newest(b, backupCount + 1) IN
         {BackupOut(IF k = Cardinality(old) THEN "OK" ELSE "failed to remove old backup",
                   b \ Newest(old, k)) :
             k \in 0..Cardinality(old)}

\* Manager.cleanupOldBackups: the files past the newest backupCount are deleted
\* newest first; the first os.Remove that fails ends the loop with its error
cleanupOldBackups(b, readDirOK) ==
    IF ~readDirOK THEN {BackupOut("EIO", b)}
    ELSE LET old == b \ Newest(b, backupCount) IN
         {BackupOut(IF k = Cardinality(old) THEN "OK" ELSE "failed to remove old backup",
                   b \ Newest(old, k)) :
             k \in 0..Cardinality(old)}

\* Manager.createBackup at second t: nothing when there is no state file;
\* otherwise the file is copied to state-<t>.json and the directory rotated;
\* io is what the environment lets succeed
createBackup(b, d, t, io) ==
    IF d = Absent THEN {BackupOut("OK", b)}
    ELSE IF ~io.read THEN {BackupOut("EIO", b)}
    ELSE IF ~io.write THEN {BackupOut("failed to write backup", b),
                            BackupOut("failed to write backup", b \cup {t})}
    ELSE cleanupOldBackups(b \cup {t}, io.readDir)

\* the io of a run in which every system call of the backup step succeeds
IoOK == [read |-> TRUE, write |-> TRUE, readDir |-> TRUE]

\* createBackup when every system call succeeds
BackedUp(b, d, t) ==
    (CHOOSE o \in createBackup(b, d, t, IoOK) : o.err = "OK").backups

\* a save that writes the directory set and leaves the mapping table out
SaveStateDirectoriesOnly(st) == MarshalIndent(FSState(st.dirs, <<>>))

\* Manager.SaveState: the state file holds the marshalled state
SaveState(st) == MarshalIndent(st)

\* a result of Manager.LoadState: its error, the state it returns, the file
LoadOut(err, st, d) == [err |-> err, state |-> st, disk |-> d]

\* Manager.LoadState that returns the default state for a missing or empty
\* file without writing it
ManagerLoadStateNoWrite(d, stat, read, write) ==
    IF d # Absent /\ stat # "ok" THEN {LoadOut("panic", NoState, d)}
    ELSE IF d \in {Absent, Empty} THEN {LoadOut("OK", DefaultState, d)}
    ELSE IF ~read THEN {LoadOut("failed to read state file", NoState, d)}
    ELSE IF ~Parses(d) THEN {LoadOut("failed to parse state file", NoState, d)}
    ELSE {LoadOut("OK", LoadState(d), d)}

\* Manager.LoadState that falls back to the default state when the file does
\* not parse
ManagerLoadStateLenient(d, stat, read, write) ==
    IF d # Absent /\ stat # "ok" THEN {LoadOut("panic", NoState, d)}
    ELSE IF d \in {Absent, Empty}
         THEN IF write THEN {LoadOut("OK", DefaultState, MarshalIndent(DefaultState))}
              ELSE {LoadOut("failed to write initial state", NoState, d),
                    LoadOut("failed to write initial state", NoState, Empty)}
    ELSE IF ~read THEN {LoadOut("failed to read state file", NoState, d)}
    ELSE IF ~Parses(d)
         THEN {LoadOut("OK", DefaultState, MarshalIndent(DefaultState))}
    ELSE {LoadOut("OK", LoadState(d), d)}

\* Manager.LoadState on the state file d.  stat is the result of os.Stat on a
\* file that exists ("ok" or an error such as "EACCES"); read and write tell
\* whether os.ReadFile and os.WriteFile succeed.  When os.Stat fails with an
\* error other than not-exist, info is nil and info.Size() panics.
ManagerLoadState(d, stat, read, write) ==
    IF d # Absent /\ stat # "ok" THEN {LoadOut("panic", NoState, d)}
    ELSE IF d \in {Absent, Empty}
         THEN IF write THEN {LoadOut("OK", DefaultState, MarshalIndent(DefaultState))}
              ELSE {LoadOut("failed to write initial state", NoState, d),
                    LoadOut("failed to write initial state", NoState, Empty)}
    ELSE IF ~read THEN {LoadOut("failed to read state file", NoState, d)}
    ELSE IF ~Parses(d) THEN {LoadOut("failed to parse state file", NoState, d)}
    ELSE {LoadOut("OK", LoadState(d), d)}

\* a result of Manager.SaveState: its error, the file, the backup directory
SaveOut(err, backupErr, d, b) ==
    [err |-> err, backupErr |-> backupErr, disk |-> d, backups |-> b]

\* how os.WriteFile and the verifying os.ReadFile of SaveState can end: the
\* open fails, the write fails on the truncated or the partly written file,
\* the read-back fails, or all succeed
WriteResults == {"open", "truncated", "partial", "verify", "ok"}

\* Manager.SaveState of st at second t: the backup step, whose error is only
\* logged (backupErr), then marshal, write and verify
ManagerSaveState(st, d, b, t, io, write) ==
    {SaveOut(IF write = "ok" THEN "OK" ELSE "EIO",
             o.err,
             CASE write = "open" -> d
               [] write = "truncated" -> Empty
               [] write = "partial" -> Unparsable
               [] OTHER -> SaveState(st),
             o.backups) : o \in createBackup(b, d, t, io)}

\* Manager.SaveState cut short by the end of the process: after the backup
\* step, after os.WriteFile has truncated the file, after it has written a
\* part of the document, or after it has written all of it
CrashedSaveState(st, d, b, t, io) ==
    {SaveOut("crash", o.err, nd, o.backups) :
        o \in createBackup(b, d, t, io), nd \in {d, Empty, Unparsable, SaveState(st)}}

----------------------------------------------------------------------------
(* Virtual directory node: handler bodies as functions of the state *)

\* Dir.Mkdir, the check made before the lock is taken
\* Dir.Mkdir without the test of the directory's own path
MkdirCheckNone(m, d) == "OK"

MkdirCheck(m, d) == IF GetSourcePath(m, d) # {} THEN "EPERM" ELSE "OK"

\* Dir.Mkdir, the insertion made under the write lock
MkdirApply(dirs, m, newPath) == {Out("OK", dirs \cup {newPath}, m)}

\* Dir.Mkdir when nothing runs between its check and its insertion
MkdirBody(dirs, m, d, name) ==
    IF MkdirCheck(m, d) # "OK" THEN {Out(MkdirCheck(m, d), dirs, m)}
    ELSE MkdirApply(dirs, m, ChildPath(d, name))

\* File.Setxattr, UnsortedFile.Setxattr
SetxattrBody(dirs, m, sp, n, v) == {Out("OK", dirs, SetXattr(m, sp, n, v))}

\* File.Removexattr, UnsortedFile.Removexattr
RemovexattrBody(dirs, m, sp, n) ==
    IF n \in DOMAIN GetXattrs(m, sp)
    THEN {Out("OK", dirs, RemoveXattr(m, sp, n))}
    ELSE {Out("ENOATTR", dirs, m)}

\* Dir.Remove with a check that does not look for placed descendants
RemoveCheckNoScan(dirs, m, childPath, isDir) ==
    IF ~isDir THEN "OK"
    ELSE IF childPath \notin dirs THEN "ENOENT" ELSE "OK"

\* Dir.Remove, the check made under the read lock
RemoveCheck(dirs, m, childPath, isDir) ==
    IF ~isDir THEN "OK"
    ELSE IF childPath \notin dirs THEN "ENOENT"
    ELSE IF \E sp \in DOMAIN m : m[sp].placed /\ HasDirPrefix(m[sp].vp, childPath)
         THEN "ENOTEMPTY"
         ELSE "OK"

\* Dir.Remove, the removal made under the write lock
RemoveApply(dirs, m, childPath, isDir) ==
    IF isDir THEN {Out("OK", dirs \ {childPath}, m)}
    ELSE {Out("OK", dirs, m2) : m2 \in RemoveMapping(m, childPath)}

\* Dir.Remove when nothing runs between its check and its removal
RemoveBody(dirs, m, childPath, isDir) ==
    IF RemoveCheck(dirs, m, childPath, isDir) # "OK"
    THEN {Out(RemoveCheck(dirs, m, childPath, isDir), dirs, m)}
    ELSE RemoveApply(dirs, m, childPath, isDir)

\* Dir.Rename, directory branch: the bulk prefix rewrite
RenamePrefix(m, oldPath, newPath) ==
    [sp \in DOMAIN m |->
        IF m[sp].placed /\ HasDirPrefix(m[sp].vp, oldPath)
        THEN FileMapping(TRUE, RewritePrefix(m[sp].vp, oldPath, newPath), m[sp].xattrs)
        ELSE m[sp]]

\* Dir.Rename, file branch, for the source path sp that GetSourcePath returned
RenameFile(dirs, m, fs, oldPath, newPath, sp) ==
    IF StatExists(fs, sp) /\ StatIsDir(fs, sp) THEN {Out("EISDIR", dirs, m)}
    ELSE {Out("OK", dirs, AddMapping(m2, fs, newPath, sp)) :
             m2 \in RemoveMapping(m, oldPath)}

\* Dir.Rename with a *Dir target
RenameBody(dirs, m, fs, oldPath, newPath) ==
    IF oldPath \in dirs
    THEN {Out("OK", (dirs \ {oldPath}) \cup {newPath}, RenamePrefix(m, oldPath, newPath))}
    ELSE IF GetSourcePath(m, oldPath) = {} THEN {Out("ENOENT", dirs, m)}
    ELSE UNION {RenameFile(dirs, m, fs, oldPath, newPath, sp) :
                   sp \in GetSourcePath(m, oldPath)}

\* a node returned by a lookup
Node(kind, src) == [kind |-> kind, src |-> src]

\* Dir.Lookup: the nodes it can return; kind "ENOENT" is the not-found error
\* Dir.Lookup that asks the mapping table before the directory set
DirLookupFilesFirst(dirs, m, d, name) ==
    LET childPath == ChildPath(d, name) IN
    IF d = VRoot /\ name = "_UNSORTED" THEN {Node("UnsortedDir", <<>>)}
    ELSE IF GetSourcePath(m, childPath) # {}
         THEN {Node("File", sp) : sp \in GetSourcePath(m, childPath)}
    ELSE IF childPath \in dirs THEN {Node("Dir", <<>>)}
         ELSE {Node("ENOENT", <<>>)}

DirLookup(dirs, m, d, name) ==
    LET childPath == ChildPath(d, name) IN
    IF d = VRoot /\ name = "_UNSORTED" THEN {Node("UnsortedDir", <<>>)}
    ELSE IF childPath \in dirs THEN {Node("Dir", <<>>)}
    ELSE IF GetSourcePath(m, childPath) # {}
         THEN {Node("File", sp) : sp \in GetSourcePath(m, childPath)}
         ELSE {Node("ENOENT", <<>>)}

Dirent(name, type) == [name |-> name, type |-> type]

\* strings.HasPrefix(p, prefix) and no "/" in the rest, for the listing prefix
\* of d: d.path.String() + "/", or "/" when d is the root
ImmediateChild(p, d) ==
    IF d = VRoot THEN Len(p) <= 1 ELSE Len(p) = Len(d) + 1 /\ IsPrefix(d, p)

RelName(p, d) == IF Len(p) = Len(d) + 1 THEN p[Len(p)] ELSE ""

\* Dir.ReadDirAll without the test that the virtual path of a row is not empty
DirReadDirAllAnyRow(dirs, m, d) ==
    {Dirent(".", "DT_Dir"), Dirent("..", "DT_Dir")}
    \cup (IF d = VRoot THEN {Dirent("_UNSORTED", "DT_Dir")} ELSE {})
    \cup {Dirent(RelName(p, d), "DT_Dir") :
             p \in {q \in dirs : q # VRoot /\ ImmediateChild(q, d)}}
    \cup {Dirent(RelName(m[sp].vp, d), "DT_File") :
             sp \in {k \in DOMAIN m : ImmediateChild(m[k].vp, d)}}

\* Dir.ReadDirAll
DirReadDirAll(dirs, m, d) ==
    {Dirent(".", "DT_Dir"), Dirent("..", "DT_Dir")}
    \cup (IF d = VRoot THEN {Dirent("_UNSORTED", "DT_Dir")} ELSE {})
    \cup {Dirent(RelName(p, d), "DT_Dir") :
             p \in {q \in dirs : q # VRoot /\ ImmediateChild(q, d)}}
    \cup {Dirent(RelName(m[sp].vp, d), "DT_File") :
             sp \in {k \in DOMAIN m : m[k].placed /\ ImmediateChild(m[k].vp, d)}}

\* Dir.ReadDirAll: how many times the entry e is appended to the listing
DirReadDirAllCount(dirs, m, d, e) ==
    (IF e \in {Dirent(".", "DT_Dir"), Dirent("..", "DT_Dir")} THEN 1 ELSE 0)
    + (IF d = VRoot /\ e = Dirent("_UNSORTED", "DT_Dir") THEN 1 ELSE 0)
    + Cardinality({q \in dirs : /\ q # VRoot /\ ImmediateChild(q, d)
                                /\ Dirent(RelName(q, d), "DT_Dir") = e})
    + Cardinality({k \in DOMAIN m : /\ m[k].placed /\ ImmediateChild(m[k].vp, d)
                                    /\ Dirent(RelName(m[k].vp, d), "DT_File") = e})

----------------------------------------------------------------------------
(* Unsorted view: the placement operation *)

\* the regular files filepath.Walk meets below a source directory
\* a walk that does not descend into subdirectories
WalkFilesShallow(fs, dir) == {sp \in fs : Len(sp) = Len(dir) + 1 /\ IsPrefix(dir, sp)}

WalkFiles(fs, dir) == {sp \in fs : Len(sp) > Len(dir) /\ IsPrefix(dir, sp)}

\* AddMapping for every walked file, rooted under newBase with the same suffix
RECURSIVE MapAll(_, _, _, _, _)
MapAll(m, fs, todo, dir, newBase) ==
    IF todo = {} THEN m
    ELSE LET sp == CHOOSE x \in todo : TRUE IN
         MapAll(AddMapping(m, fs, NewVirtualPath(RewritePrefix(sp, dir, newBase)), sp),
                fs, todo \ {sp}, dir, newBase)

\* UnsortedDir.Rename that registers the target directory before the stat
UnsortedRenameBodyEager(dirs, m, fs, sp, newBase) ==
    IF ~StatExists(fs, sp) THEN {Out("ENOENT", dirs \cup {newBase}, m)}
    ELSE IF ~StatIsDir(fs, sp) THEN {Out("OK", dirs, AddMapping(m, fs, newBase, sp))}
    ELSE {Out("OK", dirs \cup {newBase}, MapAll(m, fs, WalkFiles(fs, sp), sp, newBase))}

\* UnsortedDir.Rename with a *Dir target
UnsortedRenameBody(dirs, m, fs, sp, newBase) ==
    IF ~StatExists(fs, sp) THEN {Out("ENOENT", dirs, m)}
    ELSE IF ~StatIsDir(fs, sp) THEN {Out("OK", dirs, AddMapping(m, fs, newBase, sp))}
    ELSE {Out("OK", dirs \cup {newBase}, MapAll(m, fs, WalkFiles(fs, sp), sp, newBase))}

----------------------------------------------------------------------------
(* Node operations, each from call to return *)

\* a request goroutine: the call it serves (op and arguments), the index i of
\* its next step in the program of op, the error it will return, and the
\* bytes SaveState has marshalled
Thread(op, a, b, sp, isDir, v) ==
    [op |-> op, i |-> 1, a |-> a, b |-> b, sp |-> sp, isDir |-> isDir, v |-> v,
     err |-> "OK", snap |-> FSState({}, <<>>)]

\* a goroutine serving no call
Idle == [Thread("idle", <<>>, <<>>, <<>>, FALSE, "") EXCEPT !.i = 0]

\* the goroutines of a process that the runtime has killed
Dead == [Idle EXCEPT !.op = "dead"]

\* VMapFS.mu (w: the writer or 0, r: the readers), Manager.mu (sm: the
\* holder or 0) and the File.mu of the file nodes (n: the holder of each node
\* whose lock is taken, by source path), all free
Unlocked == [w |-> 0, r |-> {}, sm |-> 0, n |-> <<>>]

\* the paths of the Dir nodes a caller holds: Root() and the virtual directories
DirNodes == {d \in directories \cup {VRoot} : d = VRoot \/ d[1] # ReservedName}

Init ==
    /\ directories = {VRoot}
    /\ mappings = <<>>
    /\ files = SrcFiles
    /\ disk = SaveState(FSState({VRoot}, <<>>))
    /\ last = Call("LoadState", "OK", <<>>, <<>>, <<>>)
    /\ nops = 0
    /\ pc = [t \in Threads |-> Idle]
    /\ mu = Unlocked
    /\ saves = "all-ok"
    /\ backups = {}
    /\ clock = 0

\* the run has operations left
MayStart == nops < MaxOps

Tick == nops' = nops + 1

Commit(r, call) ==
    /\ directories' = r.dirs
    /\ mappings' = r.maps
    /\ disk' = IF r.err = "OK" THEN SaveState(FSState(r.dirs, r.maps)) ELSE disk
    /\ backups' = IF r.err = "OK" THEN BackedUp(backups, disk, clock) ELSE backups
    /\ last' = IF r.err = "OK" THEN call ELSE Call(call.op, r.err, <<>>, <<>>, <<>>)
    /\ Tick
    /\ UNCHANGED <<files, pc, mu, saves, clock>>

DirMkdir ==
    /\ MayStart
    /\ \E d \in DirNodes, name \in NewNames :
        \E r \in MkdirBody(directories, mappings, d, name) :
            Commit(r, Call("Mkdir", r.err, d, ChildPath(d, name), <<>>))

DirRemove ==
    /\ MayStart
    /\ \E d \in DirNodes, name \in OldNames, isDir \in BOOLEAN :
        \E r \in RemoveBody(directories, mappings, ChildPath(d, name), isDir) :
            Commit(r, Call(IF isDir THEN "Rmdir" ELSE "Unlink", r.err,
                           ChildPath(d, name), <<>>, <<>>))

\* Dir.Rename and UnsortedDir.Rename handed a target that is no *Dir
\* a target check that does not tell the unsorted view from other nodes
BadTargetAlwaysInvalid(kind) == "EINVAL"

BadTarget(kind) == IF kind = "UnsortedDir" THEN "EPERM" ELSE "EINVAL"

\* the rejected call as it is recorded, by handler and kind of target node
RejectedCall(handler, kind) ==
    IF handler = "Dir"
    THEN (IF kind = "UnsortedDir" THEN "RenameToUnsorted" ELSE "RenameToFile")
    ELSE (IF kind = "UnsortedDir" THEN "PlaceToUnsorted" ELSE "PlaceToFile")

DirRenameBadTarget ==
    /\ MayStart
    /\ \E kind \in {"UnsortedDir", "File"} :
        Commit(Out(BadTarget(kind), directories, mappings),
               Call(RejectedCall("Dir", kind), BadTarget(kind), <<>>, <<>>, <<>>))

DirRename ==
    /\ MayStart
    /\ \E d \in DirNodes, old \in OldNames, new \in RenameNames, t \in DirNodes :
        LET oldPath == ChildPath(d, old)
            newPath == ChildPath(t, new)
        IN \E r \in RenameBody(directories, mappings, files, oldPath, newPath) :
              Commit(r, Call(IF oldPath \in directories THEN "RenameDir" ELSE "RenameFile",
                             r.err, oldPath, newPath, <<>>))

UnsortedRenameBadTarget ==
    /\ MayStart
    /\ \E kind \in {"UnsortedDir", "File"} :
        Commit(Out(BadTarget(kind), directories, mappings),
               Call(RejectedCall("UnsortedDir", kind), BadTarget(kind), <<>>, <<>>, <<>>))

\* UnsortedDir.Rename of the child sp of an unsorted-view node
\* (the call record of a placed directory carries the number of walked files
\* that were placed when the call arrived)
UnsortedRename ==
    /\ MayStart
    /\ \E sp \in (SrcFiles \cup SrcDirs) \ {<<>>}, new \in NewNames, t \in DirNodes :
        LET newBase == ChildPath(t, new)
        IN \E r \in UnsortedRenameBody(directories, mappings, files, sp, newBase) :
              Commit(r, Call(IF StatIsDir(files, sp) THEN "PlaceDir" ELSE "PlaceFile",
                             r.err,
                             IF StatIsDir(files, sp)
                             THEN <<Cardinality({P \in WalkFiles(files, sp) :
                                                    IsPathMapped(mappings, P)})>>
                             ELSE <<>>,
                             newBase, sp))

Setxattr ==
    /\ MayStart
    /\ \E sp \in SrcFiles, n \in AttrNames, v \in AttrValues :
        \E r \in SetxattrBody(directories, mappings, sp, n, v) :
            Commit(r, Call("Setxattr", r.err, <<>>, <<>>, sp))

Removexattr ==
    /\ MayStart
    /\ \E sp \in SrcFiles, n \in AttrNames :
        \E r \in RemovexattrBody(directories, mappings, sp, n) :
            Commit(r, Call("Removexattr", r.err, <<>>, <<>>, sp))

\* the process is restarted: NewManager, LoadState, NewVMapFS
Restart ==
    /\ MayStart
    /\ directories' = LoadState(disk).dirs
    /\ mappings' = LoadState(disk).maps
    /\ last' = Call("LoadState", "OK", <<>>, <<>>, <<>>)
    /\ Tick
    /\ UNCHANGED <<files, disk, pc, mu, saves, backups, clock>>

\* a file of the source tree is deleted behind the filesystem's back
SourceFileVanishes ==
    /\ MayStart
    /\ \E sp \in files :
        /\ files' = files \ {sp}
        /\ Tick
        /\ UNCHANGED <<directories, mappings, disk, last, pc, mu, saves, backups, clock>>

Next ==
    \/ DirMkdir
    \/ DirRemove
    \/ DirRenameBadTarget
    \/ DirRename
    \/ UnsortedRenameBadTarget
    \/ UnsortedRename
    \/ Setxattr
    \/ Removexattr
    \/ Restart
    \/ SourceFileVanishes

Spec == Init /\ [][Next]_vars

----------------------------------------------------------------------------
(* Concurrent serving: bazil.org/fuse runs every request in its own goroutine,
   so the handlers interleave at their lock operations and table accesses *)

\* the names and source paths the concurrent callers use
ConcNames == {"x"}
ConcSources == {<<"f">>}

\* handlers that release fs.mu before they save
ProgramUnlockFirst(op) ==
    CASE op = "Lookup"         -> <<"read">>
      [] op = "UnsortedLookup" -> <<"read">>
      [] op = "ReadDirAll"     -> <<"RLock", "read", "RUnlock">>
      [] op = "Mkdir"          -> <<"precheck", "Lock", "mutate", "Unlock",
                                     "SaveState", "SaveReturn">>
      [] op = "Remove"         -> <<"RLock", "check", "RUnlock", "Lock", "mutate",
                                     "Unlock", "SaveState", "SaveReturn">>
      [] op = "Place"          -> <<"stat", "Lock", "mutate", "Unlock",
                                     "SaveState", "SaveReturn">>
      [] op \in {"Setxattr", "Removexattr"} ->
                                    <<"NodeLock", "Lock", "mutate", "Unlock",
                                      "SaveState", "SaveReturn", "NodeUnlock">>
      [] OTHER                 -> <<"Lock", "mutate", "Unlock", "SaveState",
                                     "SaveReturn">>

\* the steps of each handler in program order.  "read", "precheck" and "check"
\* read the tables, "mutate" writes them, "stat" touches the source tree only
Program(op) ==
    CASE op = "Lookup"         -> <<"read">>
      [] op = "UnsortedLookup" -> <<"read">>
      [] op = "ReadDirAll"     -> <<"RLock", "read", "RUnlock">>
      [] op = "Mkdir"          -> <<"precheck", "Lock", "mutate", "SaveState",
                                     "SaveReturn", "Unlock">>
      [] op = "Remove"         -> <<"RLock", "check", "RUnlock", "Lock", "mutate",
                                     "SaveState", "SaveReturn", "Unlock">>
      [] op = "Place"          -> <<"stat", "Lock", "mutate", "SaveState",
                                     "SaveReturn", "Unlock">>
      [] op \in {"Setxattr", "Removexattr"} ->
                                    <<"NodeLock", "Lock", "mutate", "SaveState",
                                      "SaveReturn", "Unlock", "NodeUnlock">>
      [] OTHER                 -> <<"Lock", "mutate", "SaveState", "SaveReturn",
                                     "Unlock">>

\* the step a goroutine takes next
Label(t) == IF pc[t].i = 0 THEN pc[t].op ELSE Program(pc[t].op)[pc[t].i]

\* the position of the (deferred) Unlock, where an early return under the
\* write lock continues
UnlockIndex(op) == CHOOSE k \in 1..Len(Program(op)) : Program(op)[k] = "Unlock"

\* the calls the kernel can send for the nodes it holds
Calls ==
    {Thread("Lookup", d, ChildPath(d, n), <<>>, FALSE, "") :
        d \in DirNodes, n \in ConcNames}
    \cup {Thread("UnsortedLookup", <<>>, <<>>, sp, FALSE, "") : sp \in ConcSources}
    \cup {Thread("ReadDirAll", d, <<>>, <<>>, FALSE, "") : d \in DirNodes}
    \cup {Thread("Mkdir", d, ChildPath(d, n), <<>>, FALSE, "") :
        d \in DirNodes, n \in ConcNames}
    \cup {Thread("Remove", ChildPath(d, n), <<>>, <<>>, isDir, "") :
        d \in DirNodes, n \in ConcNames, isDir \in BOOLEAN}
    \cup {Thread("Rename", ChildPath(d, n), ChildPath(d, "y"), <<>>, FALSE, "") :
        d \in DirNodes, n \in ConcNames}
    \cup {Thread("Place", <<>>, ChildPath(d, n), sp, FALSE, "") :
        d \in DirNodes, n \in ConcNames, sp \in ConcSources}
    \cup {Thread("Setxattr", <<>>, <<>>, sp, FALSE, "v1") : sp \in ConcSources}
    \cup {Thread("Removexattr", <<>>, <<>>, sp, FALSE, "") : sp \in ConcSources}

\* what the table reads of a handler report
ReadResult(c) ==
    CASE c.op = "Lookup" ->
            {IF n.kind = "ENOENT" THEN "ENOENT" ELSE "OK" :
                n \in DirLookup(directories, mappings, c.a, c.b[Len(c.b)])}
      [] c.op = "UnsortedLookup" ->
            {IF UnsortedLookup(mappings, files, SubSeq(c.sp, 1, Len(c.sp) - 1),
                               c.sp[Len(c.sp)]) = "ENOENT"
             THEN "ENOENT" ELSE "OK"}
      [] c.op = "Mkdir"  -> {MkdirCheck(mappings, c.a)}
      [] c.op = "Remove" -> {RemoveCheck(directories, mappings, c.a, c.isDir)}
      [] OTHER -> {"OK"}

\* what the table writes of a handler do
Apply(c) ==
    CASE c.op = "Mkdir"  -> MkdirApply(directories, mappings, c.b)
      [] c.op = "Remove" -> RemoveApply(directories, mappings, c.a, c.isDir)
      [] c.op = "Rename" -> RenameBody(directories, mappings, files, c.a, c.b)
      [] c.op = "Place"  -> UnsortedRenameBody(directories, mappings, files, c.sp, c.b)
      [] c.op = "Setxattr" ->
            SetxattrBody(directories, mappings, c.sp, "user.k", c.v)
      [] OTHER -> RemovexattrBody(directories, mappings, c.sp, "user.k")

\* the goroutine t continues as c, or returns when c is past its last step
Proceed(t, c) ==
    IF c.i > Len(Program(c.op))
    THEN /\ pc' = [pc EXCEPT ![t] = Idle]
         /\ last' = Call(c.op, c.err, <<>>, <<>>, <<>>)
    ELSE /\ pc' = [pc EXCEPT ![t] = c]
         /\ last' = last

Advance(c) == [c EXCEPT !.i = @ + 1]
ReturnNow(c, err) == [c EXCEPT !.i = Len(Program(c.op)) + 1, !.err = err]

\* t holds fs.mu in some mode
HoldsLock(t) == mu.w = t \/ t \in mu.r

\* the kernel sends a request; a goroutine starts to serve it
Start(t) ==
    /\ nops < MaxCalls
    /\ pc[t] = Idle
    /\ \E c \in Calls : pc' = [pc EXCEPT ![t] = c]
    /\ nops' = nops + 1
    /\ UNCHANGED <<directories, mappings, files, disk, last, mu, saves, backups, clock>>

\* os.Stat of the source before anything is locked (UnsortedDir.Rename)
StepStat(t) ==
    /\ Label(t) = "stat"
    /\ IF StatExists(files, pc[t].sp)
       THEN Proceed(t, Advance(pc[t]))
       ELSE Proceed(t, ReturnNow(pc[t], "ENOENT"))
    /\ UNCHANGED <<directories, mappings, files, disk, nops, mu, saves, backups, clock>>

\* fs.mu.RLock()
StepRLock(t) ==
    /\ Label(t) = "RLock"
    /\ mu.w = 0
    /\ mu' = [mu EXCEPT !.r = @ \cup {t}]
    /\ Proceed(t, Advance(pc[t]))
    /\ UNCHANGED <<directories, mappings, files, disk, nops, saves, backups, clock>>

\* a read of the tables: Dir.Lookup, UnsortedDir.Lookup, Dir.ReadDirAll's
\* scans, the pre-check of Dir.Mkdir, the check of Dir.Remove
StepRead(t) ==
    /\ Label(t) \in {"read", "precheck", "check"}
    /\ \E e \in ReadResult(pc[t]) :
        IF e # "OK" /\ ~HoldsLock(t)
        THEN Proceed(t, ReturnNow(pc[t], e))
        ELSE Proceed(t, Advance([pc[t] EXCEPT !.err = e]))
    /\ UNCHANGED <<directories, mappings, files, disk, nops, mu, saves, backups, clock>>

\* fs.mu.RUnlock(), and the error return of Dir.Remove after it
StepRUnlock(t) ==
    /\ Label(t) = "RUnlock"
    /\ mu' = [mu EXCEPT !.r = @ \ {t}]
    /\ IF pc[t].err # "OK"
       THEN Proceed(t, ReturnNow(pc[t], pc[t].err))
       ELSE Proceed(t, Advance(pc[t]))
    /\ UNCHANGED <<directories, mappings, files, disk, nops, saves, backups, clock>>

\* sync.RWMutex: Lock waits until there is no writer and no reader
CanLock == mu.w = 0 /\ mu.r = {}

\* fs.mu.Lock()
StepLock(t) ==
    /\ Label(t) = "Lock"
    /\ CanLock
    /\ mu' = [mu EXCEPT !.w = t]
    /\ Proceed(t, Advance(pc[t]))
    /\ UNCHANGED <<directories, mappings, files, disk, nops, saves, backups, clock>>

\* the writes of a handler to the tables; an error found here returns through
\* the Unlock without a save
StepMutate(t) ==
    /\ Label(t) = "mutate"
    /\ \E r \in Apply(pc[t]) :
        /\ directories' = r.dirs
        /\ mappings' = r.maps
        /\ IF r.err = "OK"
           THEN Proceed(t, Advance(pc[t]))
           ELSE Proceed(t, [pc[t] EXCEPT !.i = UnlockIndex(pc[t].op), !.err = r.err])
    /\ UNCHANGED <<files, disk, nops, mu, saves, backups, clock>>

\* Manager.SaveState up to json.MarshalIndent: sm.mu.Lock(), createBackup, marshal
StepSaveState(t) ==
    /\ Label(t) = "SaveState"
    /\ mu.sm = 0
    /\ mu' = [mu EXCEPT !.sm = t]
    /\ backups' = BackedUp(backups, disk, clock)
    /\ Proceed(t, Advance([pc[t] EXCEPT !.snap = FSState(directories, mappings)]))
    /\ UNCHANGED <<directories, mappings, files, disk, nops, saves, clock>>

\* Manager.SaveState from os.WriteFile to its return; the write can fail
StepSaveReturn(t) ==
    /\ Label(t) = "SaveReturn"
    /\ \E ok \in BOOLEAN :
        /\ disk' = IF ok THEN SaveState(pc[t].snap) ELSE disk
        /\ Proceed(t, Advance([pc[t] EXCEPT !.err = IF ok THEN "OK" ELSE "EIO",
                                            !.snap = Idle.snap]))
        /\ saves' = IF ~ok THEN "failed"
                     ELSE IF saves = "all-ok" THEN "all-ok" ELSE "recovered"
    /\ mu' = [mu EXCEPT !.sm = 0]
    /\ UNCHANGED <<directories, mappings, files, nops, backups, clock>>

\* f.mu.Lock() of File.Setxattr and File.Removexattr: the node's own lock,
\* taken before fs.mu
StepNodeLock(t) ==
    /\ Label(t) = "NodeLock"
    /\ pc[t].sp \notin DOMAIN mu.n
    /\ mu' = [mu EXCEPT !.n = [q \in DOMAIN @ \cup {pc[t].sp} |-> t]]
    /\ Proceed(t, Advance(pc[t]))
    /\ UNCHANGED <<directories, mappings, files, disk, nops, saves, backups, clock>>

\* the deferred f.mu.Unlock(), which runs after the deferred fs.mu.Unlock(),
\* and the return
StepNodeUnlock(t) ==
    /\ Label(t) = "NodeUnlock"
    /\ mu' = [mu EXCEPT !.n = [q \in DOMAIN @ \ {pc[t].sp} |-> @[q]]]
    /\ Proceed(t, Advance(pc[t]))
    /\ UNCHANGED <<directories, mappings, files, disk, nops, saves, backups, clock>>

\* the handlers of File that hold the node's own lock around fs.mu
NodeLocked(op) == "NodeLock" \in {Program(op)[k] : k \in 1..Len(Program(op))}

\* fs.mu.Unlock(), and the return that follows it
StepUnlock(t) ==
    /\ Label(t) = "Unlock"
    /\ mu' = [mu EXCEPT !.w = IF @ = t THEN 0 ELSE @]
    /\ IF pc[t].err # "OK" /\ ~NodeLocked(pc[t].op)
       THEN Proceed(t, ReturnNow(pc[t], pc[t].err))
       ELSE Proceed(t, Advance(pc[t]))
    /\ UNCHANGED <<directories, mappings, files, disk, nops, saves, backups, clock>>

\* t is about to read the tables without the lock while u is about to write them
Races(t, u) ==
    /\ t # u
    /\ Label(t) \in {"read", "precheck", "check"} /\ ~HoldsLock(t)
    /\ Label(u) = "mutate"

\* the Go runtime meets a concurrent map read and map write and kills the process
Fatal ==
    /\ \E t, u \in Threads : Races(t, u)
    /\ pc' = [t \in Threads |-> Dead]
    /\ mu' = Unlocked
    /\ last' = Call("fatal", "fatal", <<>>, <<>>, <<>>)
    /\ UNCHANGED <<directories, mappings, files, disk, nops, saves, backups, clock>>

\* the killed process is started again: NewManager, LoadState, NewVMapFS
Recover ==
    /\ \A t \in Threads : pc[t] = Dead
    /\ directories' = LoadState(disk).dirs
    /\ mappings' = LoadState(disk).maps
    /\ pc' = [t \in Threads |-> Idle]
    /\ last' = Call("LoadState", "OK", <<>>, <<>>, <<>>)
    /\ UNCHANGED <<files, disk, nops, mu, saves, backups, clock>>

NextConc ==
    \/ \E t \in Threads : Start(t)
    \/ \E t \in Threads : StepStat(t)
    \/ \E t \in Threads : StepRLock(t)
    \/ \E t \in Threads : StepRead(t)
    \/ \E t \in Threads : StepRUnlock(t)
    \/ \E t \in Threads : StepLock(t)
    \/ \E t \in Threads : StepMutate(t)
    \/ \E t \in Threads : StepSaveState(t)
    \/ \E t \in Threads : StepSaveReturn(t)
    \/ \E t \in Threads : StepUnlock(t)
    \/ \E t \in Threads : StepNodeLock(t)
    \/ \E t \in Threads : StepNodeUnlock(t)
    \/ Fatal
    \/ Recover

SpecConc == Init /\ [][NextConc]_vars

----------------------------------------------------------------------------
(* Vocabulary of the properties *)

Parent(p) == SubSeq(p, 1, Len(p) - 1)
Base(p)   == p[Len(p)]

\* v lies below the directory D
Below(v, D) == Len(v) > Len(D) /\ SubSeq(v, 1, Len(D)) = D

PlacedAt(m, v) == {sp \in DOMAIN m : m[sp].placed /\ m[sp].vp = v}
PlacedBelow(m, D) == {sp \in DOMAIN m : m[sp].placed /\ Below(m[sp].vp, D)}

\* the child paths a caller can name below the Dir nodes it holds
ChildPaths == {Append(d, n) : d \in DirNodes, n \in OldNames \ {".."}}
\* the paths a caller can name as the target of a rename or a placement
NewPaths == {Append(t, n) : t \in DirNodes, n \in NewNames}

\* what Dir.Lookup finds at the path v
LookupAt(dirs, m, v) == DirLookup(dirs, m, Parent(v), Base(v))

\* what the path v resolves to: the kernel walks it from Root(), one
\* Dir.Lookup per component
RECURSIVE ResolveFrom(_, _, _, _)
ResolveFrom(dirs, m, cur, rest) ==
    IF rest = <<>> THEN {Node("Dir", <<>>)}
    ELSE UNION {IF n.kind = "Dir"
                THEN ResolveFrom(dirs, m, Append(cur, Head(rest)), Tail(rest))
                ELSE IF Len(rest) = 1 THEN {n} ELSE {Node("ENOENT", <<>>)} :
                    n \in DirLookup(dirs, m, cur, Head(rest))}

Resolve(dirs, m, v) == ResolveFrom(dirs, m, VRoot, v)

----------------------------------------------------------------------------
(* C1..C7: the namespace invariants and the contracts of the operations *)

\* C1: the root path "/" is a member of the virtual directory set in every
\* reachable state, whatever child name the operations are given.
C1_RootAlwaysMember == VRoot \in directories

\* C2: no two distinct source paths are placed at the same virtual path.
C2_UniquePlacement ==
    \A p, q \in DOMAIN mappings :
        (p # q /\ mappings[p].placed /\ mappings[q].placed)
            => mappings[p].vp # mappings[q].vp

\* C3: in every state of the mapping table, after AddMapping(V, P) of an
\* existing regular file P, GetSourcePath(V) returns P, IsPathMapped(P) holds,
\* and P is neither shown by the unsorted view nor among UnmappedSourcePaths().
C3_AddMappingPost ==
    \A V \in NewPaths, P \in files :
        LET m2 == AddMapping(mappings, files, V, P) IN
        /\ GetSourcePath(m2, V) = {P}
        /\ IsPathMapped(m2, P)
        /\ ~ShownUnsorted(m2, files, P)
        /\ P \notin UnmappedSourcePaths(m2, files)

\* C4: in every state of the mapping table, for every source path P placed at
\* V, after RemoveMapping(V) (Dir.Remove of the file) GetSourcePath(V) is
\* absent, P is unplaced and shown again by the unsorted view and by
\* UnmappedSourcePaths(), and P keeps the attributes it had.
C4_RemoveMappingPost ==
    \A P \in DOMAIN mappings :
        (mappings[P].placed /\ P \in files) =>
            \A r \in RemoveBody(directories, mappings, mappings[P].vp, FALSE) :
                /\ r.err = "OK"
                /\ GetSourcePath(r.maps, mappings[P].vp) = {}
                /\ ~IsPathMapped(r.maps, P)
                /\ ShownUnsorted(r.maps, files, P)
                /\ P \in UnmappedSourcePaths(r.maps, files)
                /\ GetXattrs(r.maps, P) = GetXattrs(mappings, P)

\* C5: Dir.Rename of the virtual directory D to D2 (not below D) removes D from and adds D2
\* to the directory set, moves every mapping below D to the same suffix below
\* D2, leaves every other mapping as it was, keeps the rows, their keys and
\* their attributes; afterwards what resolved at D/s resolves to the same
\* source at D2/s, and D/s is not found.
C5_RenameDirectory ==
    \A D \in directories \cap ChildPaths, D2 \in NewPaths :
        (D2 # D /\ ~Below(D2, D)) =>
            \A r \in RenameBody(directories, mappings, files, D, D2) :
                /\ r.err = "OK"
                /\ D \notin r.dirs /\ D2 \in r.dirs
                /\ DOMAIN r.maps = DOMAIN mappings
                /\ \A sp \in DOMAIN mappings :
                      /\ r.maps[sp].xattrs = mappings[sp].xattrs
                      /\ r.maps[sp].placed = mappings[sp].placed
                      /\ IF sp \in PlacedBelow(mappings, D)
                         THEN LET s == SubSeq(mappings[sp].vp, Len(D) + 1,
                                              Len(mappings[sp].vp))
                              IN /\ r.maps[sp].vp = D2 \o s
                                 /\ Node("File", sp)
                                       \in Resolve(directories, mappings, D \o s)
                                     => /\ Resolve(r.dirs, r.maps, D2 \o s)
                                           = Resolve(directories, mappings, D \o s)
                                        /\ Resolve(r.dirs, r.maps, D \o s)
                                           = {Node("ENOENT", <<>>)}
                         ELSE r.maps[sp].vp = mappings[sp].vp

\* C6: whenever Dir.Rename of a file placed at V with the one source P to V2
\* returns success, P is placed at V2 and nothing is placed at V, in every state of the
\* source tree, also when P no longer exists on disk.
C6_RenameFileMoves ==
    \A P \in DOMAIN mappings, V2 \in NewPaths :
        (/\ PlacedAt(mappings, mappings[P].vp) = {P}
         /\ mappings[P].vp \notin directories
         /\ V2 # mappings[P].vp) =>
            \A r \in RenameFile(directories, mappings, files, mappings[P].vp, V2, P) :
                r.err = "OK" =>
                    /\ P \in GetSourcePath(r.maps, V2)
                    /\ GetSourcePath(r.maps, mappings[P].vp) = {}

----------------------------------------------------------------------------
(* C8..C10: the handlers under concurrent requests *)

\* C8: under every interleaving, the step of Dir.Remove that deletes the
\* virtual directory D is never taken in a state where a placed mapping lies
\* below D.
C8_RemoveNeverDeletesOccupied ==
    [][\A t \in Threads :
          (/\ Label(t) = "mutate" /\ pc[t].op = "Remove" /\ pc[t].isDir
           /\ pc'[t].i = pc[t].i + 1)
              => PlacedBelow(mappings, pc[t].a) = {}]_vars

\* C9: every read of the mapping table or the directory set by a node operation
\* is made with fs.mu held, every write with fs.mu held in write mode, so no
\* read of one goroutine stands against a write of another.
C9_AccessUnderLock ==
    /\ \A t \in Threads :
          /\ Label(t) \in {"read", "precheck", "check"} => HoldsLock(t)
          /\ Label(t) = "mutate" => mu.w = t
    /\ \A t, u \in Threads : ~Races(t, u)

\* the goroutines between their first write to the tables and the return of
\* their SaveState
Mutating == {t \in Threads : Label(t) \in {"mutate", "SaveState", "SaveReturn"}}

\* C10: a mutating operation holds fs.mu in write mode from its first mutation
\* until its SaveState has returned; at most one operation is mutating or
\* saving; two saves never overlap; what a save writes is the state with every
\* mutation completed before it.
C10_WriteLockThroughSave ==
    /\ \A t \in Mutating : mu.w = t
    /\ Cardinality(Mutating) <= 1
    /\ Cardinality({t \in Threads : Label(t) = "SaveReturn"}) <= 1
    /\ \A t \in Threads :
          Label(t) = "SaveReturn" => pc[t].snap = FSState(directories, mappings)

\* one goroutine is saving while another waits for the write lock
C10_Witness ==
    \E t, u \in Threads :
        /\ t # u
        /\ Label(t) = "SaveReturn" /\ mu.w = t
        /\ Label(u) = "Lock"
        /\ SaveState(pc[t].snap) # disk

----------------------------------------------------------------------------
(* C11..C20: errors, the unsorted view, attributes, persistence *)

\* C11: a node operation that returns an error other than a save failure
\* leaves the mapping table and the directory set exactly as they were before
\* the call.
C11_ErrorsChangeNothing ==
    [][last'.err \notin {"OK", "EIO"}
          => (directories' = directories /\ mappings' = mappings)]_vars

\* a rename of a name that is not placed was refused while files are placed
C11_Witness ==
    /\ last.op = "RenameFile" /\ last.err = "ENOENT"
    /\ \E sp \in DOMAIN mappings : mappings[sp].placed

\* the source path P has no row or a row with an empty virtual path
Unplaced(m, P) == P \notin DOMAIN m \/ ~m[P].placed

\* P and the source directories above it, the source root excepted
UpTo(P) == {SubSeq(P, 1, k) : k \in 1..Len(P)}

\* the mapping table without the row of P
DropRow(m, P) == [k \in DOMAIN m \ {P} |-> m[k]]

SrcNames == {"f", "d", "g", "e", "h", "x"}

\* the source directory c has a regular file that is not placed in its subtree
HasUnplacedFile(m, fs, c) == \E P \in fs : Below(P, c) /\ Unplaced(m, P)

SameRowsExcept(m, m2, changed) ==
    /\ DOMAIN m2 \ changed = DOMAIN m \ changed
    /\ \A k \in DOMAIN m \ changed : m2[k] = m[k]

\* C14: UnsortedDir.Rename of a source directory S into the virtual directory T
\* under the name n places every regular file S/r of the subtree of S at T/n/r,
\* adds T/n to the directory set, creates no row for S or any of its
\* subdirectories, touches no other row, and leaves S hidden from the unsorted
\* view; for a regular file it creates the one mapping at T/n and nothing else.
C14_PlaceSubtree ==
    [](
    \A t \in DirNodes, n \in NewNames :
        LET newBase == ChildPath(t, n) IN
        /\ \A S \in SrcDirs \ {<<>>} :
             \A r \in UnsortedRenameBody(directories, mappings, files, S, newBase) :
                 /\ r.err = "OK"
                 /\ \A P \in files : Below(P, S) =>
                        /\ P \in DOMAIN r.maps
                        /\ r.maps[P].placed
                        /\ r.maps[P].vp = newBase \o SubSeq(P, Len(S) + 1, Len(P))
                 /\ r.dirs = directories \cup {newBase}
                 /\ DOMAIN r.maps \cap SrcDirs = {}
                 /\ SameRowsExcept(mappings, r.maps, {P \in files : Below(P, S)})
                 /\ UnsortedLookup(r.maps, files, Parent(S), Base(S)) = "ENOENT"
                 /\ Base(S) \notin UnsortedReadDirAll(r.maps, files, Parent(S))
        /\ \A P \in files :
             \A r \in UnsortedRenameBody(directories, mappings, files, P, newBase) :
                 /\ r.err = "OK"
                 /\ P \in DOMAIN r.maps /\ r.maps[P].placed /\ r.maps[P].vp = newBase
                 /\ SameRowsExcept(mappings, r.maps, {P})
                 /\ r.dirs = directories)

\* a source directory with a nested subdirectory has just been placed below a
\* virtual directory other than the root, and all its files sit under the new name
C14_Witness ==
    /\ last.op = "PlaceDir" /\ last.err = "OK"
    /\ Len(last.b) = 2
    /\ last.b \in directories
    /\ \E P, Q \in files :
          /\ Len(P) = Len(last.s) + 1 /\ Len(Q) = Len(last.s) + 2
          /\ \A X \in {P, Q} :
                /\ Below(X, last.s)
                /\ X \in DOMAIN mappings /\ mappings[X].placed
                /\ mappings[X].vp = last.b \o SubSeq(X, Len(last.s) + 1, Len(X))

\* File.Getxattr on a node that holds the source path sp
Getxattr(m, sp, n) ==
    IF n \in DOMAIN GetXattrs(m, sp) THEN GetXattrs(m, sp)[n] ELSE "ENOATTR"

\* the operations that change where files are placed
PlacementOps == {"Mkdir", "Remove", "RenameDir", "RenameFile", "PlaceDir", "PlaceFile"}

\* C15: a placement change (AddMapping through UnsortedDir.Rename, RemoveMapping
\* through Dir.Remove, Dir.Rename of a file or of a directory above it) leaves
\* the attribute map of every source path as it was, and an attribute that an
\* unplaced source path P carries is read, once P is placed at a path that is
\* not a virtual directory, through the file node that Dir.Lookup finds there.
C15_AttributesSurvivePlacement ==
    [][(last'.op \in PlacementOps /\ last'.err = "OK") =>
         \A P \in SrcFiles :
            /\ GetXattrs(mappings', P) = GetXattrs(mappings, P)
            /\ (/\ Unplaced(mappings, P) /\ ~Unplaced(mappings', P)
                /\ mappings'[P].vp \notin directories') =>
                 \A n \in DOMAIN GetXattrs(mappings, P) :
                    \A node \in DirLookup(directories', mappings',
                                          Parent(mappings'[P].vp), Base(mappings'[P].vp)) :
                       /\ node.kind = "File"
                       /\ Getxattr(mappings', node.src, n) = GetXattrs(mappings, P)[n]]_vars

\* C16: Dir.Rename and UnsortedDir.Rename return EPERM when the target node is
\* an unsorted-view node and EINVAL when it is any other node that is not a
\* virtual directory, and the call changes neither table nor the state file.
C16_NoMoveIntoUnsorted ==
    [][/\ last'.op \in {"RenameToUnsorted", "PlaceToUnsorted"} =>
             /\ last'.err = "EPERM"
             /\ UNCHANGED <<directories, mappings, disk>>
       /\ last'.op \in {"RenameToFile", "PlaceToFile"} =>
             /\ last'.err = "EINVAL"
             /\ UNCHANGED <<directories, mappings, disk>>]_vars

\* a move into the unsorted view has just been refused while a file was placed
\* in a virtual directory
C16_Witness ==
    /\ last.op \in {"RenameToUnsorted", "PlaceToUnsorted"}
    /\ last.err = "EPERM"
    /\ \E sp \in DOMAIN mappings : mappings[sp].placed /\ Len(mappings[sp].vp) > 1

\* the virtual path v is /_UNSORTED or lies beneath it
Reserved(v) == Len(v) > 0 /\ v[1] = ReservedName

\* no member of the directory set and no virtual path of a placed mapping is
\* /_UNSORTED or lies beneath it
NoReservedPath(dirs, m) ==
    /\ \A d \in dirs : ~Reserved(d)
    /\ \A sp \in DOMAIN m : m[sp].placed => ~Reserved(m[sp].vp)

\* C17: no member of the directory set and no virtual path of a placed mapping
\* is /_UNSORTED or lies beneath it: Mkdir, Dir.Rename (of an entry other than
\* the root) and UnsortedDir.Rename, whatever names they are given, lead from a
\* state without such a path to a state without such a path.
C17_ReservedNameUnused ==
    [][(/\ last'.op \in {"Mkdir", "RenameDir", "RenameFile", "PlaceDir", "PlaceFile"}
        /\ last'.err = "OK"
        /\ ~(last'.op = "RenameDir" /\ last'.a = VRoot)
        /\ NoReservedPath(directories, mappings))
          => NoReservedPath(directories', mappings')]_vars

\* C18: while no mutating operation is in progress and every SaveState so far
\* has succeeded, the state file
\* holds exactly the in-memory mapping table (virtual paths and attributes) and
\* the in-memory directory set.
C18_DiskHoldsMemory ==
    (Mutating = {} /\ saves = "all-ok") =>
        /\ Unmarshal(disk).maps = mappings
        /\ Unmarshal(disk).dirs = directories

\* C19: when SaveState fails inside a mutating operation the operation returns
\* the error, the tables keep the mutation (nothing is rolled back), and a
\* SaveState that succeeds, in whatever operation, leaves the state file
\* holding the full in-memory state.
C19_SaveFailureKeepsMemory ==
    [][\A t \in Threads :
          /\ (Label(t) = "SaveReturn" /\ pc'[t].i = pc[t].i + 1) =>
                /\ directories' = directories /\ mappings' = mappings
                /\ IF saves' = "failed"
                   THEN pc'[t].err = "EIO"
                   ELSE Unmarshal(disk') = FSState(directories', mappings')
          /\ (pc[t].err = "EIO" /\ pc'[t] = Idle) =>
                /\ last'.err = "EIO"
                /\ directories' = directories /\ mappings' = mappings]_vars

\* an operation has returned the error of a failed SaveState, memory was ahead
\* of the state file, and the SaveState of the next operation has just written
\* the full in-memory state
C19_Witness ==
    /\ saves = "recovered"
    /\ last.err = "EIO"
    /\ \E t \in Threads : Label(t) = "Unlock" /\ pc[t].err = "OK"
    /\ mappings # <<>> /\ directories # {VRoot}
    /\ Unmarshal(disk) = FSState(directories, mappings)

----------------------------------------------------------------------------
(* Round trip through the state file: SaveState, then LoadState *)

\* the source keys, virtual paths, directories and attribute names a state can
\* hold; a name of the source tree, of a Mkdir or of a Setxattr is any byte
\* string the kernel accepts
RTKeys  == {<<"f">>, <<"d", "caf<E9>">>}
RTPaths == {<<"x">>, <<"x", "caf<E9>">>}
RTDirs  == {<<"x">>, <<"caf<E9>">>}
RTAttrs == {"user.k", "user.<FF>"}

\* every attribute map over RTAttrs
RTXattrs == UNION {[A -> AttrValues] : A \in SUBSET RTAttrs}

\* every row: unplaced (empty virtual path) or placed at a path of RTPaths
RTRows ==
    {FileMapping(FALSE, <<>>, x) : x \in RTXattrs}
        \cup {FileMapping(TRUE, vp, x) : vp \in RTPaths, x \in RTXattrs}

\* a state S: any table over RTKeys and any directory set that holds the root
InitRoundTrip ==
    /\ directories \in {D \cup {VRoot} : D \in SUBSET RTDirs}
    /\ mappings \in UNION {[K -> RTRows] : K \in SUBSET RTKeys}
    /\ files = SrcFiles
    /\ disk = SaveState(FSState({VRoot}, <<>>))
    /\ last = Call("NewState", "OK", <<>>, <<>>, <<>>)
    /\ nops = 0
    /\ pc = [t \in Threads |-> Idle]
    /\ mu = Unlocked
    /\ saves = "all-ok"
    /\ backups = {}
    /\ clock = 0

\* Manager.SaveState(S) succeeds
RoundTripSave ==
    /\ last.op = "NewState"
    /\ disk' = SaveState(FSState(directories, mappings))
    /\ backups' = BackedUp(backups, disk, clock)
    /\ last' = Call("SaveState", "OK", <<>>, <<>>, <<>>)
    /\ UNCHANGED <<directories, mappings, files, nops, pc, mu, saves, clock>>

\* Manager.LoadState reads the file back
RoundTripLoad ==
    /\ last.op = "SaveState"
    /\ directories' = LoadState(disk).dirs
    /\ mappings' = LoadState(disk).maps
    /\ last' = Call("LoadState", "OK", <<>>, <<>>, <<>>)
    /\ UNCHANGED <<files, disk, nops, pc, mu, saves, backups, clock>>

NextRoundTrip == RoundTripSave \/ RoundTripLoad

SpecRoundTrip == InitRoundTrip /\ [][NextRoundTrip]_vars

\* C20: LoadState after a successful SaveState(S) returns the source keys of S,
\* for each key its virtual path (empty ones included) and its attribute
\* name/value pairs, and the directory set of S.
C20_RoundTrip ==
    last.op = "SaveState" =>
        /\ DOMAIN LoadState(disk).maps = DOMAIN mappings
        /\ \A sp \in DOMAIN mappings :
              /\ LoadState(disk).maps[sp].placed = mappings[sp].placed
              /\ LoadState(disk).maps[sp].vp = mappings[sp].vp
              /\ LoadState(disk).maps[sp].xattrs = mappings[sp].xattrs
        /\ LoadState(disk).dirs = directories

----------------------------------------------------------------------------
(* The state manager over the life of the installation: the process starts
   (NewManager, LoadState), saves, and exits; while it is not serving, the
   state file can be deleted, emptied or damaged from outside.  last.op tells
   where the process is: "exit", "NewManager", "LoadState" or "SaveState". *)

\* the states the filesystem hands to SaveState
MgrStates ==
    {DefaultState,
     FSState({VRoot, <<"x">>}, (<<"f">> :> FileMapping(TRUE, <<"x", "f">>, NoXattrs)))}

\* what the environment lets the system calls of one backup step do
BackupIo == [read : BOOLEAN, write : BOOLEAN, readDir : BOOLEAN]

\* the process has loaded its state and serves requests
Running == last.op = "SaveState" \/ (last.op = "LoadState" /\ last.err = "OK")

InitManager ==
    /\ directories = DefaultState.dirs
    /\ mappings = DefaultState.maps
    /\ files = SrcFiles
    /\ disk = Absent
    /\ last = Call("exit", "OK", <<>>, <<>>, <<>>)
    /\ nops = 0
    /\ pc = [t \in Threads |-> Idle]
    /\ mu = Unlocked
    /\ saves = "all-ok"
    /\ backups = {}
    /\ clock = 0

\* NewManager: os.OpenFile(O_WRONLY|O_CREATE) leaves an existing file as it is
\* and creates an empty one otherwise
MgrNewManager ==
    /\ last.op = "exit"
    /\ disk' = IF disk = Absent THEN Empty ELSE disk
    /\ last' = Call("NewManager", "OK", <<>>, <<>>, <<>>)
    /\ UNCHANGED <<directories, mappings, files, nops, pc, mu, saves, backups, clock>>

\* main: LoadState; on an error (or the panic) the process ends
MgrLoadState ==
    /\ last.op = "NewManager"
    /\ \E stat \in {"ok", "EACCES"}, read \in BOOLEAN, write \in BOOLEAN :
        \E o \in ManagerLoadState(disk, stat, read, write) :
            /\ disk' = o.disk
            /\ directories' = IF o.err = "OK" THEN o.state.dirs ELSE directories
            /\ mappings' = IF o.err = "OK" THEN o.state.maps ELSE mappings
            /\ last' = Call("LoadState", o.err, <<>>, <<>>, <<>>)
    /\ UNCHANGED <<files, nops, pc, mu, saves, backups, clock>>

\* a mutating operation has changed the state in memory and calls SaveState;
\* last.a records the error of the backup step
MgrSaveState ==
    /\ Running
    /\ \E st \in MgrStates, io \in BackupIo, write \in WriteResults :
        \E o \in ManagerSaveState(st, disk, backups, clock, io, write) :
            /\ directories' = st.dirs
            /\ mappings' = st.maps
            /\ disk' = o.disk
            /\ backups' = o.backups
            /\ last' = Call("SaveState", o.err, <<o.backupErr>>, <<>>,
                             <<Cardinality(backups \ o.backups)>>)
    /\ UNCHANGED <<files, nops, pc, mu, saves, clock>>

\* the process exits, or was ended by a failed LoadState
MgrExit ==
    /\ last.op \in {"LoadState", "SaveState"}
    /\ last' = Call("exit", "OK", <<>>, <<>>, <<>>)
    /\ UNCHANGED <<directories, mappings, files, disk, nops, pc, mu, saves, backups, clock>>

\* before LoadState runs, the state file is deleted, emptied or damaged
MgrFileDamaged ==
    /\ last.op \in {"exit", "NewManager"}
    /\ \E d \in {Absent, Empty, Unparsable} :
        /\ d # disk
        /\ disk' = d
    /\ UNCHANGED <<directories, mappings, files, last, nops, pc, mu, saves, backups, clock>>

\* a second passes
MgrClock ==
    /\ clock < MaxClock
    /\ clock' = clock + 1
    /\ UNCHANGED <<directories, mappings, files, disk, last, nops, pc, mu, saves, backups>>

\* the process is killed while SaveState runs
MgrCrash ==
    /\ Running
    /\ \E st \in MgrStates, io \in BackupIo :
        \E o \in CrashedSaveState(st, disk, backups, clock, io) :
            /\ directories' = st.dirs
            /\ mappings' = st.maps
            /\ disk' = o.disk
            /\ backups' = o.backups
    /\ last' = Call("exit", "killed", <<>>, <<>>, <<>>)
    /\ UNCHANGED <<files, nops, pc, mu, saves, clock>>

NextManager ==
    \/ MgrCrash
    \/ MgrNewManager
    \/ MgrLoadState
    \/ MgrSaveState
    \/ MgrExit
    \/ MgrFileDamaged
    \/ MgrClock

SpecManager == InitManager /\ [][NextManager]_vars

(***************************************************************************)
(* Claims about the state file and its backups                             *)
(***************************************************************************)

\* C21: LoadState on an absent or zero-length state file writes and returns
\* the default state (no mapping, only the root directory, version 1); the
\* file it leaves is not empty and a second LoadState returns the same
\* default state.
C21_DefaultStateOnMissingFile ==
    (last.op = "NewManager" /\ disk \in {Absent, Empty}) =>
        \A read \in BOOLEAN :
            /\ \E o \in ManagerLoadState(disk, "ok", read, TRUE) : o.err = "OK"
            /\ \A write \in BOOLEAN :
                 \A o \in ManagerLoadState(disk, "ok", read, write) :
                    o.err = "OK" =>
                        /\ o.state = DefaultState
                        /\ o.state.dirs = {VRoot}
                        /\ o.state.maps = <<>>
                        /\ o.disk \notin {Absent, Empty}
                        /\ Parses(o.disk)
                        /\ o.disk.version = 1
                        /\ \A w2 \in BOOLEAN :
                             ManagerLoadState(o.disk, "ok", TRUE, w2)
                                 = {LoadOut("OK", DefaultState, o.disk)}

\* LoadState has created the state file: nothing has been saved yet
C21_Witness ==
    /\ last.op = "LoadState"
    /\ last.err = "OK"
    /\ disk = MarshalIndent(DefaultState)
    /\ directories = {VRoot}
    /\ mappings = <<>>
    /\ backups = {}

\* C22: LoadState on a non-empty state file that does not parse returns an
\* error and no state: it returns neither an empty nor a default state and
\* leaves the unparsable file as it is.
C22_UnparsableFileIsAnError ==
    (last.op = "NewManager" /\ disk = Unparsable) =>
        \A read, write \in BOOLEAN :
            \A o \in ManagerLoadState(disk, "ok", read, write) :
                /\ o.err # "OK"
                /\ read => o.err = "failed to parse state file"
                /\ o.state = NoState
                /\ o.state # DefaultState
                /\ o.disk = disk

\* LoadState has refused an unparsable file
C22_Witness ==
    /\ last.op = "LoadState"
    /\ last.err = "failed to parse state file"
    /\ disk = Unparsable

\* C23: after every SaveState whose backup step completes, however many
\* saves came before, the backup directory holds at most 5 backup files and
\* they are the most recently modified ones: every older backup is deleted.
C23_NewestFiveBackupsKept ==
    [][(last'.op = "SaveState" /\ last'.a = <<"OK">> /\ Running /\ clock' = clock
        /\ <<last', backups', disk'>> # <<last, backups, disk>>) =>
            /\ Cardinality(backups') <= 5
            /\ clock \in backups'
            /\ \A old \in (backups \cup {clock}) \ backups' :
                   /\ \A kept \in backups' : old < kept
                   /\ Cardinality(backups') = 5]_vars

\* a completed backup step has deleted the oldest backup and left five
C23_Witness ==
    /\ last.op = "SaveState"
    /\ last.a = <<"OK">>
    /\ last.s = <<1>>
    /\ Cardinality(backups) = backupCount
    /\ clock \in backups

OpenFlags == SUBSET {"O_WRONLY", "O_RDWR", "O_CREAT", "O_TRUNC", "O_APPEND"}

\* a result of Open: its error and, for a handle, the access mode of the
\* descriptor and what the open did to the content of the source file
OpenOut(err, h) == [err |-> err, handle |-> h]

\* os.OpenFile(path, flags, 0) of an existing source file with neither access
\* bit set: the descriptor is read-only, O_CREAT and O_APPEND change nothing,
\* and O_TRUNC with O_RDONLY, which POSIX leaves unspecified, may cut the file
\* to length 0; the open can fail
OsOpenFile(flags) ==
    {OpenOut("EIO", <<>>)} \cup
    {OpenOut("OK", <<"O_RDONLY", c>>) :
        c \in IF "O_TRUNC" \in flags THEN {"intact", "truncated"} ELSE {"intact"}}

\* File.Open: only the two access bits are tested
FileOpenBody(flags) ==
    IF "O_WRONLY" \in flags \/ "O_RDWR" \in flags
    THEN {OpenOut("EPERM", <<>>)}
    ELSE OsOpenFile(flags)

\* UnsortedFile.Open: the same test
UnsortedFileOpenBody(flags) ==
    IF "O_WRONLY" \in flags \/ "O_RDWR" \in flags
    THEN {OpenOut("EPERM", <<>>)}
    ELSE OsOpenFile(flags)

\* a mounted file system in which some source files are placed under /x
InitOpen ==
    /\ directories = {VRoot, <<"x">>}
    /\ \E S \in SUBSET SrcFiles :
          mappings = [sp \in S |-> FileMapping(TRUE, <<"x", sp[Len(sp)]>>, NoXattrs)]
    /\ files = SrcFiles
    /\ disk = SaveState(FSState(directories, mappings))
    /\ last = Call("LoadState", "OK", <<>>, <<>>, <<>>)
    /\ nops = 0
    /\ pc = [t \in Threads |-> Idle]
    /\ mu = Unlocked
    /\ saves = "all-ok"
    /\ backups = {}
    /\ clock = 0

\* Open on the File node of a placed source file
FileOpen ==
    /\ \E sp \in DOMAIN mappings, flags \in OpenFlags :
         /\ mappings[sp].placed
         /\ \E o \in FileOpenBody(flags) :
              last' = Call("File.Open", o.err, sp, flags, o.handle)
    /\ UNCHANGED <<directories, mappings, files, disk, nops, pc, mu, saves,
                   backups, clock>>

\* Open on the UnsortedFile node of a source file shown in the unsorted view
UnsortedFileOpen ==
    /\ \E sp \in files, flags \in OpenFlags :
         /\ ~IsPathMapped(mappings, sp)
         /\ \E o \in UnsortedFileOpenBody(flags) :
              last' = Call("UnsortedFile.Open", o.err, sp, flags, o.handle)
    /\ UNCHANGED <<directories, mappings, files, disk, nops, pc, mu, saves,
                   backups, clock>>

NextOpen == FileOpen \/ UnsortedFileOpen

SpecOpen == InitOpen /\ [][NextOpen]_vars

\* the flags of an open request carry write intent
WriteIntent(flags) ==
    flags \cap {"O_WRONLY", "O_RDWR", "O_TRUNC", "O_APPEND", "O_CREAT"} # {}

\* C25: File.Open and UnsortedFile.Open return permission-denied for every
\* open request whose flags carry write intent (write-only or read-write
\* access, truncate, append or create); whenever they succeed the source
\* file is opened read-only and its content is left as it was.
C25_WriteIntentDenied ==
    last.op \in {"File.Open", "UnsortedFile.Open"} =>
        /\ WriteIntent(last.b) => last.err = "EPERM"
        /\ last.err = "OK" => last.s = <<"O_RDONLY", "intact">>

(***************************************************************************)
(* Extended attributes                                                     *)
(***************************************************************************)

\* File.Listxattr, UnsortedFile.Listxattr on a node that holds the source
\* path sp: the names appended to the response
Listxattr(m, sp) == IF sp \in DOMAIN m THEN DOMAIN m[sp].xattrs ELSE {}

\* the attribute names of the claim: the one the runs set and another
XattrNames == AttrNames \cup {"user.j"}

\* C26: for every source path P, placed or not, and every attribute name n:
\* after Setxattr(P, n, v) Getxattr(P, n) returns v and Listxattr(P) has n;
\* after Removexattr(P, n) Getxattr reports no such attribute and Listxattr
\* omits n, other attributes staying; Setxattr on a path with no mapping row
\* creates a row with an empty virtual path, so P stays unplaced and is shown
\* in the unsorted view; no attribute operation changes where P is placed.
C26_AttributeStore ==
    [](
    \A P \in files, n \in XattrNames, v \in AttrValues :
        \A r \in SetxattrBody(directories, mappings, P, n, v) :
            /\ r.err = "OK"
            /\ Getxattr(r.maps, P, n) = v
            /\ n \in Listxattr(r.maps, P)
            /\ Listxattr(r.maps, P) = Listxattr(mappings, P) \cup {n}
            /\ IsPathMapped(r.maps, P) <=> IsPathMapped(mappings, P)
            /\ SameRowsExcept(mappings, r.maps, {P})
            /\ P \notin DOMAIN mappings =>
                  /\ r.maps[P].vp = <<>>
                  /\ Unplaced(r.maps, P)
                  /\ UnsortedLookup(r.maps, files, Parent(P), Base(P)) = "file"
                  /\ Base(P) \in UnsortedReadDirAll(r.maps, files, Parent(P))
            /\ \A k \in XattrNames :
                 \A q \in RemovexattrBody(r.dirs, r.maps, P, k) :
                    IF k \in Listxattr(r.maps, P)
                    THEN /\ q.err = "OK"
                         /\ Getxattr(q.maps, P, k) = "ENOATTR"
                         /\ Listxattr(q.maps, P) = Listxattr(r.maps, P) \ {k}
                         /\ k # n => Getxattr(q.maps, P, n) = v
                         /\ IsPathMapped(q.maps, P) <=> IsPathMapped(mappings, P)
                    ELSE q.err = "ENOATTR" /\ q.maps = r.maps)

\* Setxattr has created the row of a source file that had none: the file
\* carries the attribute and is still shown in the unsorted view
C26_Witness ==
    /\ last.op = "Setxattr"
    /\ last.err = "OK"
    /\ nops = 1
    /\ last.s \in DOMAIN mappings
    /\ mappings[last.s].vp = <<>>
    /\ Listxattr(mappings, last.s) = AttrNames
    /\ UnsortedLookup(mappings, files, Parent(last.s), Base(last.s)) = "file"

(***************************************************************************)
(* The virtual directory tree                                              *)
(***************************************************************************)

\* C27: when Dir.Remove of a file mapping leaves a virtual directory with no
\* placed file beneath it, that directory is removed from the directory set.
C27_RemoveCleansDirectories ==
    [][(last'.op = "Unlink" /\ last'.err = "OK" /\ nops' = nops + 1
        /\ last'.a # VRoot) =>
            \A D \in directories \ {VRoot} :
                (PlacedBelow(mappings, D) # {} /\ PlacedBelow(mappings', D) = {})
                    => D \notin directories']_vars

\* the directories above the virtual path v, the root included
Ancestors(v) == {SubSeq(v, 1, k) : k \in 0..(Len(v) - 1)}

\* C28: in every reachable state every directory above the virtual path of a
\* placed mapping is the root or a member of the directory set, so that the
\* placed file is listed by Dir.ReadDirAll of its parent and found by a chain
\* of Dir.Lookup calls from the root.
C28_PlacedFilesReachable ==
    \A sp \in DOMAIN mappings :
        mappings[sp].placed =>
            /\ Ancestors(mappings[sp].vp) \subseteq directories \cup {VRoot}
            /\ Dirent(Base(mappings[sp].vp), "DT_File")
                   \in DirReadDirAll(directories, mappings, Parent(mappings[sp].vp))
            /\ Node("File", sp) \in ResolveFrom(directories \cup {VRoot}, mappings,
                                                VRoot, mappings[sp].vp)

\* every member of dirs other than the root has its parent in dirs
HaveParents(dirs) == \A D \in dirs \ {VRoot} : Parent(D) \in dirs \cup {VRoot}

\* C29: in every reachable state every member of the directory set other than
\* the root has its parent in the set: Dir.Remove and Dir.Rename of a
\* directory with virtual subdirectories leave no subdirectory entry under a
\* path that is no longer a directory.
C29_DirectoriesHaveParents ==
    [][(/\ last'.op \in {"Rmdir", "RenameDir"}
        /\ last'.err = "OK"
        /\ nops' = nops + 1
        /\ last'.a # VRoot
        /\ last'.op = "RenameDir" =>
              /\ last'.b # last'.a
              /\ ~Below(last'.b, last'.a)
              /\ PlacedAt(mappings, last'.b) = {}
        /\ HaveParents(directories))
           => HaveParents(directories')]_vars

\* Dir.Mkdir with a name that a file of the source tree carries as well
DirMkdirSourceName ==
    /\ MayStart
    /\ \E d \in DirNodes \ {VRoot} :
        \E r \in MkdirBody(directories, mappings, d, "g") :
            Commit(r, Call("Mkdir", r.err, d, ChildPath(d, "g"), <<>>))

NextTree == Next \/ DirMkdirSourceName

SpecTree == Init /\ [][NextTree]_vars

\* no virtual path is a directory and the place of a file
NoFileAtDirectory(dirs, m) ==
    \A sp \in DOMAIN m : m[sp].placed => m[sp].vp \notin dirs

\* the call of this step is one the kernel delivers: it creates no entry
\* where Dir.Lookup finds one, moves no file onto a directory and no
\* directory onto a file, and moves no directory into itself
Delivered ==
    /\ nops' = nops + 1
    /\ last'.err = "OK"
    /\ CASE last'.op = "Mkdir" ->
               Node("ENOENT", <<>>) \in LookupAt(directories, mappings, last'.b)
         [] last'.op \in {"PlaceFile", "RenameFile"} ->
               last'.b \notin directories
         [] last'.op = "PlaceDir" -> PlacedAt(mappings, last'.b) = {}
         [] last'.op = "RenameDir" ->
               /\ last'.a # VRoot
               /\ last'.b # last'.a
               /\ ~Below(last'.b, last'.a)
               /\ PlacedAt(mappings, last'.b) = {}
         [] OTHER -> FALSE

\* C30: in every reachable state no virtual path is both a member of the
\* directory set and the virtual path of a placed mapping: Mkdir and
\* Dir.Rename create no directory entry where a file is placed, and
\* UnsortedDir.Rename and Dir.Rename place no file at a virtual directory.
C30_NoFileAtDirectory ==
    [][(Delivered /\ NoFileAtDirectory(directories, mappings))
          => NoFileAtDirectory(directories', mappings')]_vars

\* C31: when the process ends at any point during SaveState, the next
\* LoadState returns the state that was on disk before the save, or the
\* state being saved, or fails with an error; it never returns a fresh
\* default state in place of the mappings that were on disk.
C31_CrashKeepsMappings ==
    (Running /\ Parses(disk)) =>
        \A st \in MgrStates, io \in BackupIo :
            \A c \in CrashedSaveState(st, disk, backups, clock, io) :
                \A read, write \in BOOLEAN :
                    \A o \in ManagerLoadState(c.disk, "ok", read, write) :
                        \/ o.err # "OK"
                        \/ o.state = LoadState(disk)
                        \/ o.state = st

(***************************************************************************)
(* Placement of a source directory, and the two views                      *)
(***************************************************************************)

\* C32 as stated: UnsortedDir.Rename of a source directory shown in the
\* unsorted view changes the placement only of descendant files that were
\* unplaced: a descendant already placed keeps its virtual path, and every
\* mapping outside the subtree is unchanged.
C32_PlacedDescendantsStay ==
    \A S \in SrcDirs \ {<<>>}, T \in NewPaths :
        (HasUnplacedFile(mappings, files, S) /\ PlacedAt(mappings, T) = {}) =>
            \A r \in UnsortedRenameBody(directories, mappings, files, S, T) :
                \A P \in DOMAIN mappings :
                    (mappings[P].placed \/ ~Below(P, S)) => r.maps[P] = mappings[P]

\* C32, amended: UnsortedDir.Rename of a source directory S to T places every
\* regular file below S at T plus its path relative to S, also one that was
\* placed elsewhere before the call: that file leaves its virtual path and
\* keeps its attributes; every mapping outside the subtree is unchanged.
C32_PlacedDescendantsMove ==
    \A S \in SrcDirs \ {<<>>}, T \in NewPaths :
        (HasUnplacedFile(mappings, files, S) /\ PlacedAt(mappings, T) = {}) =>
            \A r \in UnsortedRenameBody(directories, mappings, files, S, T) :
                \A P \in DOMAIN mappings :
                    IF P \in files /\ Below(P, S)
                    THEN /\ r.maps[P].placed
                         /\ r.maps[P].vp = T \o SubSeq(P, Len(S) + 1, Len(P))
                         /\ r.maps[P].xattrs = mappings[P].xattrs
                         /\ (mappings[P].placed /\ mappings[P].vp # r.maps[P].vp)
                               => P \notin GetSourcePath(r.maps, mappings[P].vp)
                    ELSE r.maps[P] = mappings[P]

\* a source directory has been placed of which a file was placed before: that
\* file now sits below the new directory
C32_Witness ==
    /\ last.op = "PlaceDir" /\ last.err = "OK"
    /\ last.a = <<1>>
    /\ \A P \in files : Below(P, last.s) =>
          /\ P \in DOMAIN mappings /\ mappings[P].placed
          /\ mappings[P].vp = last.b \o SubSeq(P, Len(last.s) + 1, Len(P))

LookupNames == SrcNames \cup NewNames \cup {ReservedName}

\* the answer of Dir.Lookup follows the order unsorted view, directory set,
\* mapping table, not-found
LookupPrecedence(dirs, m) ==
    \A D \in dirs \cup {VRoot}, n \in LookupNames :
        LET res == DirLookup(dirs, m, D, n)
            V   == Append(D, n)
        IN IF D = VRoot /\ n = ReservedName THEN res = {Node("UnsortedDir", <<>>)}
           ELSE IF V \in dirs THEN res = {Node("Dir", <<>>)}
           ELSE IF PlacedAt(m, V) # {}
                THEN res # {} /\ res \subseteq {Node("File", P) : P \in PlacedAt(m, V)}
                ELSE res = {Node("ENOENT", <<>>)}

\* C34: Dir.Lookup(name) in the virtual directory D returns, in this order of
\* precedence, the unsorted view when D is the root and name is _UNSORTED, a
\* directory node when D/name is in the directory set, a file node bound to
\* a source placed at D/name, and otherwise not-found; a directory created
\* by Mkdir is found by Lookup, a removed or renamed-away directory is not.
C34_LookupPrecedence ==
    /\ []LookupPrecedence(directories, mappings)
    /\ [][(last'.err = "OK" /\ nops' = nops + 1) =>
            /\ last'.op = "Mkdir" =>
                  LookupAt(directories', mappings', last'.b) = {Node("Dir", <<>>)}
            /\ (last'.op = "Rmdir" /\ last'.a # VRoot) =>
                  Node("Dir", <<>>) \notin LookupAt(directories', mappings', last'.a)
            /\ (last'.op = "RenameDir" /\ last'.a # VRoot /\ last'.b # last'.a) =>
                  /\ Node("Dir", <<>>) \notin LookupAt(directories', mappings', last'.a)
                  /\ last'.b # <<ReservedName>> =>
                        LookupAt(directories', mappings', last'.b) = {Node("Dir", <<>>)}]_vars

\* a directory that holds a placed file has been renamed: Lookup finds the
\* new name and the file below it, and no longer the old name
C34_Witness ==
    /\ last.op = "RenameDir" /\ last.err = "OK"
    /\ last.a # VRoot /\ ~Below(last.b, last.a) /\ last.b # last.a
    /\ LookupAt(directories, mappings, last.b) = {Node("Dir", <<>>)}
    /\ LookupAt(directories, mappings, last.a) = {Node("ENOENT", <<>>)}
    /\ \E sp \in DOMAIN mappings :
          /\ mappings[sp].placed
          /\ Parent(mappings[sp].vp) = last.b
          /\ LookupAt(directories, mappings, mappings[sp].vp) = {Node("File", sp)}

\* the entries the listing of D is to hold: the dot entries, _UNSORTED at the
\* root, the directories and the placed files that are immediate children
Children(dirs, m, D) ==
    {Dirent(".", "DT_Dir"), Dirent("..", "DT_Dir")}
    \cup {Dirent(ReservedName, "DT_Dir") : x \in {D} \cap {VRoot}}
    \cup {Dirent(Base(q), "DT_Dir") : q \in {p \in dirs \ {VRoot} : Parent(p) = D}}
    \cup {Dirent(Base(m[sp].vp), "DT_File") :
             sp \in {k \in DOMAIN m : /\ m[k].placed /\ m[k].vp # VRoot
                                       /\ Parent(m[k].vp) = D}}

\* C35: Dir.ReadDirAll of the virtual directory D returns exactly '.' and
\* '..', the entry _UNSORTED if and only if D is the root, one directory entry
\* for every member of the directory set that is an immediate child of D
\* (never the root), and one file entry for every placed mapping whose
\* virtual path is an immediate child of D; unplaced mappings and deeper
\* descendants are not listed.
C35_ListingIsChildren ==
    [](
    \A D \in directories \cup {VRoot} :
        /\ DirReadDirAll(directories, mappings, D) = Children(directories, mappings, D)
        /\ \A e \in Children(directories, mappings, D) :
              DirReadDirAllCount(directories, mappings, D, e) =
                  IF e.type = "DT_File"
                  THEN Cardinality(PlacedAt(mappings, Append(D, e.name)))
                  ELSE (IF e.name \in {".", ".."} THEN 1 ELSE 0)
                       + (IF D = VRoot /\ e.name = ReservedName THEN 1 ELSE 0)
                       + (IF Append(D, e.name) \in directories THEN 1 ELSE 0))

\* the root holds a directory and a placed file, a file is placed below the
\* directory, and a row that only carries attributes is listed nowhere
C35_Witness ==
    /\ DirReadDirAll(directories, mappings, VRoot) =
          {Dirent(".", "DT_Dir"), Dirent("..", "DT_Dir"), Dirent("_UNSORTED", "DT_Dir"),
           Dirent("x", "DT_Dir"), Dirent("y", "DT_File")}
    /\ \E sp \in DOMAIN mappings : mappings[sp].placed /\ Len(mappings[sp].vp) = 2
    /\ \E sp \in DOMAIN mappings : ~mappings[sp].placed

\* what Dir.Mkdir(n) in D does to the state it is called in
MkdirEffect(dirs, m) ==
    \A D \in {d \in dirs \cup {VRoot} : d = VRoot \/ d[1] # ReservedName}, n \in NewNames :
        \A r \in MkdirBody(dirs, m, D, n) :
            IF PlacedAt(m, D) # {}
            THEN r = Out("EPERM", dirs, m)
            ELSE /\ r.err = "OK"
                 /\ r.dirs = dirs \cup {Append(D, n)}
                 /\ r.maps = m
                 /\ Append(D, n) \in dirs => r.dirs = dirs

\* C36: Dir.Mkdir(name) in D returns permission-denied and changes nothing
\* when the path of D is the virtual path of a placed file; otherwise it adds
\* exactly D/name to the directory set, leaves every mapping and every other
\* member of the set as they were, saves, and returns a node for D/name that
\* Lookup finds as a directory; for a name that is a virtual directory
\* already it succeeds and leaves the set as it is.
C36_MkdirEffect ==
    [][/\ MkdirEffect(directories, mappings)
       /\ (last'.op = "Mkdir" /\ nops' = nops + 1) =>
            IF last'.err = "OK"
            THEN /\ PlacedAt(mappings, last'.a) = {}
                 /\ Parent(last'.b) = last'.a
                 /\ directories' = directories \cup {last'.b}
                 /\ mappings' = mappings
                 /\ disk' = MarshalIndent(FSState(directories', mappings'))
                 /\ LookupAt(directories', mappings', last'.b) = {Node("Dir", <<>>)}
            ELSE /\ last'.err = "EPERM"
                 /\ UNCHANGED <<directories, mappings, disk>>]_vars

\* Mkdir has been refused in a directory whose path is the place of a file
C36_Witness ==
    /\ last.op = "Mkdir" /\ last.err = "EPERM"
    /\ \E D \in directories : PlacedAt(mappings, D) # {}

(***************************************************************************)
(* PathMapper.GetVirtualPath                                               *)
(***************************************************************************)

\* PathMapper.GetVirtualPath: absent when the source path has no row;
\* otherwise NewVirtualPath of the row's virtual path, which for the empty
\* string is "/." (filepath.Clean("") is ".")
GetVirtualPath(m, sp) ==
    IF sp \notin DOMAIN m THEN [exists |-> FALSE, vp |-> <<>>]
    ELSE [exists |-> TRUE, vp |-> IF m[sp].placed THEN m[sp].vp ELSE <<".">>]

\* C37: GetVirtualPath(P) reports a virtual path exactly when IsPathMapped(P)
\* holds: for a source path without a row, and for one whose row only
\* carries attributes, it reports absent.
C37_VirtualPathIffMapped ==
    \A P \in SrcFiles :
        /\ GetVirtualPath(mappings, P).exists <=> IsPathMapped(mappings, P)
        /\ IsPathMapped(mappings, P) => GetVirtualPath(mappings, P).vp = mappings[P].vp

(***************************************************************************)
(* Locks and termination                                                   *)
(***************************************************************************)

\* a step of goroutine t in the handler it is serving
Step(t) ==
    \/ StepStat(t) \/ StepRLock(t) \/ StepRead(t) \/ StepRUnlock(t)
    \/ StepLock(t) \/ StepMutate(t) \/ StepSaveState(t) \/ StepSaveReturn(t)
    \/ StepUnlock(t) \/ StepNodeLock(t) \/ StepNodeUnlock(t)

\* the Go scheduler runs every goroutine that can run; nothing obliges the
\* kernel to send a request or an operator to start a killed process again
SpecConcFair ==
    Init /\ [][NextConc]_vars /\ \A t \in Threads : WF_vars(Step(t))

\* t is serving a call
Serving(t) == pc[t] \notin {Idle, Dead}

\* the locks t holds
Held(t) ==
    {"fs.mu" : x \in {1} \cap (IF HoldsLock(t) THEN {1} ELSE {})}
    \cup {"sm.mu" : x \in {1} \cap (IF mu.sm = t THEN {1} ELSE {})}
    \cup {"f.mu" : q \in {q \in DOMAIN mu.n : mu.n[q] = t}}

\* a goroutine that serves no call holds no lock; a goroutine about to take
\* a lock does not hold it, and holds none that comes later in the order
\* f.mu, fs.mu, sm.mu; some serving goroutine can always take a step
LockDiscipline ==
    /\ \A t \in Threads :
          /\ ~Serving(t) => Held(t) = {}
          /\ Label(t) = "NodeLock" => Held(t) = {}
          /\ Label(t) \in {"RLock", "Lock"} => Held(t) \subseteq {"f.mu"}
          /\ Label(t) = "SaveState" => "sm.mu" \notin Held(t)
    /\ (\E t \in Threads : Serving(t)) => \E t \in Threads : ENABLED Step(t)

\* no goroutine is killed while it serves a call
ServedToReturn == \A t \in Threads : Serving(t) => pc'[t] # Dead

\* C38: every node operation releases every lock it acquired on every return
\* path; locks are acquired only in the order node lock, filesystem lock,
\* state-manager lock, and never twice; hence concurrently running operations
\* never deadlock, and every operation that has started eventually returns.
C38_OperationsReturn ==
    /\ []LockDiscipline
    /\ [][ServedToReturn]_vars
    /\ \A t \in Threads : Serving(t) ~> (pc[t] = Idle)

(***************************************************************************)
(* Read-only node operations                                               *)
(***************************************************************************)

\* the node operations that write neither table and call no SaveState
ReadOnlyOps ==
    {"Dir.Attr", "Dir.Lookup", "Dir.ReadDirAll", "File.Attr", "File.Open",
     "Getxattr", "Listxattr", "UnsortedDir.Attr", "UnsortedDir.Lookup",
     "UnsortedDir.ReadDirAll"}

\* the operations served by the File node of a source path
FileNodeOps == {"File.Attr", "File.Open", "Getxattr", "Listxattr"}

\* File.Attr that forgets the mapping of a source file it no longer finds
FileAttrForgetful(dirs, m, fs, sp) ==
    IF sp \in fs THEN {Out("OK", dirs, m)}
    ELSE {Out("ENOENT", dirs, [q \in DOMAIN m \ {sp} |-> m[q]])}

\* File.Attr on the node that holds source path sp: os.Stat of the source
\* file, ENOENT when it is gone; the tables are not touched
FileAttr(dirs, m, fs, sp) ==
    {Out(IF sp \in fs THEN "OK" ELSE "ENOENT", dirs, m)}

\* what a read-only handler returns and the tables it leaves, for the Dir node
\* d, the UnsortedDir node u, the File node of sp and the name asked for
ReadOnlyBody(op, dirs, m, fs, d, u, name, sp) ==
    CASE op = "File.Attr" -> FileAttr(dirs, m, fs, sp)
      [] op = "File.Open" ->
            {Out(o.err, dirs, m) : o \in FileOpenBody({}) \cup FileOpenBody({"O_WRONLY"})}
      [] op = "Getxattr" ->
            {Out(IF Getxattr(m, sp, name) = "ENOATTR" THEN "ENOATTR" ELSE "OK", dirs, m)}
      [] op = "Dir.Lookup" ->
            {Out(IF n.kind = "ENOENT" THEN "ENOENT" ELSE "OK", dirs, m) :
                n \in DirLookup(dirs, m, d, name)}
      [] op = "UnsortedDir.Attr" ->
            {Out(IF u = <<>> \/ StatExists(fs, u) THEN "OK" ELSE "ENOENT", dirs, m)}
      [] op = "UnsortedDir.Lookup" ->
            {Out(IF UnsortedLookup(m, fs, u, name) = "ENOENT" THEN "ENOENT" ELSE "OK",
                 dirs, m)}
      [] OTHER -> {Out("OK", dirs, m)}

\* the kernel sends a read-only request for a node it holds, a Dir node d, an
\* UnsortedDir node u or the File node of sp; a File node can outlive the
\* source file it stands for
ReadOnlyCall ==
    /\ MayStart
    /\ \E op \in ReadOnlyOps :
        \E d \in IF op \in {"Dir.Attr", "Dir.Lookup", "Dir.ReadDirAll"}
                  THEN DirNodes ELSE {VRoot},
           u \in IF op \in {"UnsortedDir.Attr", "UnsortedDir.Lookup",
                            "UnsortedDir.ReadDirAll"}
                  THEN SrcDirs ELSE {<<>>},
           sp \in IF op \in FileNodeOps THEN SrcFiles ELSE {<<>>},
           name \in IF op = "Getxattr" THEN AttrNames
                     ELSE IF op \in {"Dir.Lookup", "UnsortedDir.Lookup"}
                          THEN NewNames \cup {"g"} ELSE {""} :
        \E r \in ReadOnlyBody(op, directories, mappings, files, d, u, name, sp) :
            /\ directories' = r.dirs
            /\ mappings' = r.maps
            /\ last' = Call(op, r.err, <<>>, <<>>, IF op \in FileNodeOps THEN sp ELSE <<>>)
    /\ Tick
    /\ UNCHANGED <<files, disk, pc, mu, saves, backups, clock>>

NextRead ==
    \/ Next
    \/ ReadOnlyCall

SpecRead == Init /\ [][NextRead]_vars

\* C39: the read-only node operations leave the mapping table and the
\* directory set as they were and save nothing; File.Attr on a mapping whose
\* source file has disappeared reports not-found, and the mapping stays placed.
C39_ReadsChangeNothing ==
    [][(last'.op \in ReadOnlyOps /\ nops' = nops + 1 /\ files' = files) =>
         /\ UNCHANGED <<directories, mappings, disk, backups, saves>>
         /\ (last'.op = "File.Attr" /\ last'.s \notin files) => last'.err = "ENOENT"
         /\ (last'.op = "File.Attr" /\ IsPathMapped(mappings, last'.s)) =>
               /\ IsPathMapped(mappings', last'.s)
               /\ mappings'[last'.s].vp = mappings[last'.s].vp]_vars

\* File.Attr has reported not-found for a placed file whose source is gone
C39_Witness ==
    /\ last.op = "File.Attr" /\ last.err = "ENOENT"
    /\ last.s \notin files
    /\ IsPathMapped(mappings, last.s)

(***************************************************************************)
(* Manager.LoadState when os.Stat fails                                    *)
(***************************************************************************)

\* C40: when the stat of an existing state file fails for a reason other than
\* the file being absent, LoadState returns the error "failed to check state
\* file" and no state: it does not crash, returns no default state and
\* leaves the file as it is.
C40_StatFailureIsAnError ==
    (last.op = "NewManager" /\ disk # Absent) =>
        \A read, write \in BOOLEAN :
            \A o \in ManagerLoadState(disk, "EACCES", read, write) :
                /\ o.err = "failed to check state file"
                /\ o.err # "panic"
                /\ o.state = NoState
                /\ o.state # DefaultState
                /\ o.disk = disk

====
